---- MODULE Spec2Model ----
(***************************************************************************)
(* Baseline Sentinel: the scan-and-remediate engine (baseline-engine.ts)   *)
(* and the editor glue that turns Findings into diagnostics and quick-fix  *)
(* edits (extension.ts, FixProvider.ts).                                   *)
(*                                                                         *)
(* Text is modelled as it is: a string is a sequence of one-character      *)
(* strings, a document is a sequence of lines, and a line is a sequence of *)
(* lexical tokens whose raw characters, concatenated, are the line's text. *)
(* Columns, substring tests and range edits are computed on characters.    *)
(***************************************************************************)
EXTENDS Integers, Sequences, FiniteSets, TLC

VARIABLES
    languageId,   \* document.languageId of the open document
    doc,          \* the document's text: a sequence of lines of tokens
    phase,        \* "dirty": text not yet scanned; "scanned"; "rejected": the scan's promise rejected
    findings,     \* the Finding[] the latest scan returned
    raised,       \* whether the latest scan raised internally (caught or not)
    applied,      \* the last quick fix applied: the Finding, its edit, and the text and Findings before it
    nFixes,       \* the number of fixes (single or batch) applied so far
    batch,        \* the last batch composition: who built it, from which diagnostics, and its edits
    call,         \* one call of scanHtml: its list, the promise, the microtask queue, what the caller got
    oracle,       \* the Baseline oracle: the datasets it reads, its caches and its last answer
    cli,          \* one run of the command-line scanner: files, counters, reports and exit code
    workspace,    \* the open documents of the editor, their diagnostics and the debounce timer
    autoSync      \* the polling of GitHub for CI results: server, requests in flight, notifications

session == <<languageId, doc, phase, findings, raised, applied, nFixes, batch>>
vars == <<languageId, doc, phase, findings, raised, applied, nFixes, batch, call, oracle, cli,
          workspace, autoSync>>

(***************************************************************************)
(* Bounds of the model.                                                    *)
(***************************************************************************)
\* the longest document Init draws, in lines
MaxLines == 3
\* the number of quick fixes one behaviour applies
MaxFixes == 1
\* the most entries the scanned directory holds
MaxFiles == 2
\* the longest document a batch of fixes is composed for, in lines
MaxBatchLines == 2

(***************************************************************************)
(* String literals of the source, as character sequences.                  *)
(***************************************************************************)
\* 'baseline-disable-next-line ' (with its trailing blank, as in the template literals)
DIRECTIVE == <<"b","a","s","e","l","i","n","e","-","d","i","s","a","b","l","e","-","n","e","x","t","-","l","i","n","e"," ">>
\* 'css.properties.'
CSS_PROPERTIES == <<"c","s","s",".","p","r","o","p","e","r","t","i","e","s",".">>
s_text_wrap == <<"t","e","x","t","-","w","r","a","p">>
s_text_wrap_mode == <<"t","e","x","t","-","w","r","a","p","-","m","o","d","e">>
s_backdrop_filter == <<"b","a","c","k","d","r","o","p","-","f","i","l","t","e","r">>
s_background_color == <<"b","a","c","k","g","r","o","u","n","d","-","c","o","l","o","r">>
s_accent_color == <<"a","c","c","e","n","t","-","c","o","l","o","r">>
s_width == <<"w","i","d","t","h">>
s_balance == <<"b","a","l","a","n","c","e">>
s_blur == <<"b","l","u","r","(","2","p","x",")">>
s_red == <<"r","e","d">>
\* 'color-mix(in srgb, red, blue)'
s_color_mix_value == <<"c","o","l","o","r","-","m","i","x","(","i","n"," ","s","r","g","b",","," ","r","e","d",","," ","b","l","u","e",")">>
s_rgba == <<"r","g","b","a","(","0",","," ","0",","," ","0",","," ","0",".","5",")">>
s_color_mix_open == <<"c","o","l","o","r","-","m","i","x","(">>
s_oklch == <<"o","k","l","c","h">>
s_oklab == <<"o","k","l","a","b">>
s_sin == <<"s","i","n">>
s_cos == <<"c","o","s">>
s_tan == <<"t","a","n">>
s_has_open == <<":","h","a","s","(">>
s_container == <<"c","o","n","t","a","i","n","e","r">>
s_property == <<"p","r","o","p","e","r","t","y">>
s_dot_a == <<".","a">>
s_min_width == <<"(","m","i","n","-","w","i","d","t","h",":"," ","1","p","x",")">>
s_a_has_b == <<".","a",":","h","a","s","(",".","b",")">>
s_note == <<"n","o","t","e">>
s_css == <<"c","s","s">>
fid_functions_color_mix == <<"c","s","s",".","f","u","n","c","t","i","o","n","s",".","c","o","l","o","r","-","m","i","x">>
fid_functions_oklch == <<"c","s","s",".","f","u","n","c","t","i","o","n","s",".","o","k","l","c","h">>
fid_functions_sin == <<"c","s","s",".","f","u","n","c","t","i","o","n","s",".","s","i","n">>
fid_at_rules_container == <<"c","s","s",".","a","t","-","r","u","l","e","s",".","c","o","n","t","a","i","n","e","r">>
fid_at_rules_property == <<"c","s","s",".","a","t","-","r","u","l","e","s",".","p","r","o","p","e","r","t","y">>
fid_selectors_has == <<"c","s","s",".","s","e","l","e","c","t","o","r","s",".","h","a","s">>
fid_text_wrap == CSS_PROPERTIES \o s_text_wrap
fid_text_wrap_mode == CSS_PROPERTIES \o s_text_wrap_mode
fid_backdrop_filter == CSS_PROPERTIES \o s_backdrop_filter
fid_accent_color == CSS_PROPERTIES \o s_accent_color
s_color_adjust == <<"c","o","l","o","r","-","a","d","j","u","s","t">>
s_print_color_adjust == <<"p","r","i","n","t","-","c","o","l","o","r","-","a","d","j","u","s","t">>
s_exact == <<"e","x","a","c","t">>
fid_color_adjust == CSS_PROPERTIES \o s_color_adjust
\* "WARNING: 'color-mix()' is not Baseline. Provide a fallback color. (baseline-disable-next-line css.functions.color-mix)"
msg_functions_color_mix == <<"W","A","R","N","I","N","G",":"," ","'","c","o","l","o","r","-","m","i","x","(",")","'"," ","i","s"," ","n","o","t"," ","B","a","s","e","l","i","n","e","."," ","P","r","o","v","i","d","e"," ","a"," ","f","a","l","l","b","a","c","k"," ","c","o","l","o","r","."," ","(","b","a","s","e","l","i","n","e","-","d","i","s","a","b","l","e","-","n","e","x","t","-","l","i","n","e"," ","c","s","s",".","f","u","n","c","t","i","o","n","s",".","c","o","l","o","r","-","m","i","x",")">>

\* 'WARNING: Container queries are not Baseline and have no fallback. (baseline-disable-next-line css.at-rules.container)'
msg_at_rules_container == <<"W","A","R","N","I","N","G",":"," ","C","o","n","t","a","i","n","e","r"," ","q","u","e","r","i","e","s"," ","a","r","e"," ","n","o","t"," ","B","a","s","e","l","i","n","e"," ","a","n","d"," ","h","a","v","e"," ","n","o"," ","f","a","l","l","b","a","c","k","."," ","(","b","a","s","e","l","i","n","e","-","d","i","s","a","b","l","e","-","n","e","x","t","-","l","i","n","e"," ","c","s","s",".","a","t","-","r","u","l","e","s",".","c","o","n","t","a","i","n","e","r",")">>
\* "WARNING: The :has() selector is not Baseline and has no fallback. (baseline-disable-next-line css.selectors.has)"
msg_selectors_has == <<"W","A","R","N","I","N","G",":"," ","T","h","e"," ",":","h","a","s","(",")"," ","s","e","l","e","c","t","o","r"," ","i","s"," ","n","o","t"," ","B","a","s","e","l","i","n","e"," ","a","n","d"," ","h","a","s"," ","n","o"," ","f","a","l","l","b","a","c","k","."," ","(","b","a","s","e","l","i","n","e","-","d","i","s","a","b","l","e","-","n","e","x","t","-","l","i","n","e"," ","c","s","s",".","s","e","l","e","c","t","o","r","s",".","h","a","s",")">>

s_api_dot == <<"a","p","i",".">>
s_ResizeObserver == <<"R","e","s","i","z","e","O","b","s","e","r","v","e","r">>
s_ResizeObserverEntry == <<"R","e","s","i","z","e","O","b","s","e","r","v","e","r","E","n","t","r","y">>
s_globalThis == <<"g","l","o","b","a","l","T","h","i","s">>
s_BigInt == <<"B","i","g","I","n","t">>
s_Symbol == <<"S","y","m","b","o","l">>
s_Map == <<"M","a","p">>
s_Set == <<"S","e","t">>
s_Worker == <<"W","o","r","k","e","r">>
s_WebSocket == <<"W","e","b","S","o","c","k","e","t">>
s_PaymentRequest == <<"P","a","y","m","e","n","t","R","e","q","u","e","s","t">>
s_RTCPeerConnection == <<"R","T","C","P","e","e","r","C","o","n","n","e","c","t","i","o","n">>
s_keyCode == <<"k","e","y","C","o","d","e">>
s_eq27 == <<" ","=","=","="," ","2","7",")"," ","{","}">>
s_key == <<"k","e","y">>
s_hasOwn == <<"h","a","s","O","w","n">>
fid_keyCode == <<"j","a","v","a","s","c","r","i","p","t",".","p","r","o","p","e","r","t","i","e","s",".","k","e","y","C","o","d","e">>
fid_Object_hasOwn == <<"a","p","i",".","O","b","j","e","c","t",".","h","a","s","O","w","n">>
fid_ResizeObserver == s_api_dot \o s_ResizeObserver
fid_Map == s_api_dot \o s_Map
\* "TIP: 'ResizeObserver' is not Baseline. Consider a polyfill. (baseline-disable-next-line api.ResizeObserver)"
msg_ResizeObserver == <<"T","I","P",":"," ","'","R","e","s","i","z","e","O","b","s","e","r","v","e","r","'"," ","i","s"," ","n","o","t"," ","B","a","s","e","l","i","n","e","."," ","C","o","n","s","i","d","e","r"," ","a"," ","p","o","l","y","f","i","l","l","."," ","(","b","a","s","e","l","i","n","e","-","d","i","s","a","b","l","e","-","n","e","x","t","-","l","i","n","e"," ","a","p","i",".","R","e","s","i","z","e","O","b","s","e","r","v","e","r",")">>
\* "TIP: 'Map' is not fully Baseline. Consider a polyfill. (baseline-disable-next-line api.Map)"
msg_Map == <<"T","I","P",":"," ","'","M","a","p","'"," ","i","s"," ","n","o","t"," ","f","u","l","l","y"," ","B","a","s","e","l","i","n","e","."," ","C","o","n","s","i","d","e","r"," ","a"," ","p","o","l","y","f","i","l","l","."," ","(","b","a","s","e","l","i","n","e","-","d","i","s","a","b","l","e","-","n","e","x","t","-","l","i","n","e"," ","a","p","i",".","M","a","p",")">>

HTML_ELEMENTS == <<"h","t","m","l",".","e","l","e","m","e","n","t","s",".">>
HTML_GLOBAL_ATTRIBUTES == <<"h","t","m","l",".","g","l","o","b","a","l","_","a","t","t","r","i","b","u","t","e","s",".">>
s_input_type_ == <<"i","n","p","u","t",".","t","y","p","e","_">>
s_dot_loading == <<".","l","o","a","d","i","n","g">>
s_loading == <<"l","o","a","d","i","n","g">>
s_img == <<"i","m","g">>
s_iframe == <<"i","f","r","a","m","e">>
s_input == <<"i","n","p","u","t">>
s_type == <<"t","y","p","e">>
s_date == <<"d","a","t","e">>
s_style == <<"s","t","y","l","e">>
s_script == <<"s","c","r","i","p","t">>
s_marquee == <<"m","a","r","q","u","e","e">>
s_b == <<"b">>
s_i == <<"i">>
s_p == <<"p">>
s_x == <<"x">>
fid_marquee == <<"h","t","m","l",".","e","l","e","m","e","n","t","s",".","m","a","r","q","u","e","e">>
fid_input_type_date == <<"h","t","m","l",".","e","l","e","m","e","n","t","s",".","i","n","p","u","t",".","t","y","p","e","_","d","a","t","e">>
msg_marquee == <<"W","A","R","N","I","N","G",":"," ","<","m","a","r","q","u","e","e",">"," ","i","s"," ","d","e","p","r","e","c","a","t","e","d","."," ","U","s","e"," ","C","S","S"," ","a","n","i","m","a","t","i","o","n","s"," ","i","n","s","t","e","a","d","."," ","(","b","a","s","e","l","i","n","e","-","d","i","s","a","b","l","e","-","n","e","x","t","-","l","i","n","e"," ","h","t","m","l",".","e","l","e","m","e","n","t","s",".","m","a","r","q","u","e","e",")">>
msg_input_type_date == <<"C","o","n","s","i","d","e","r"," ","u","s","i","n","g"," ","a"," ","d","a","t","e"," ","p","i","c","k","e","r"," ","p","o","l","y","f","i","l","l"," ","f","o","r"," ","<","i","n","p","u","t"," ","t","y","p","e","=","\"","d","a","t","e","\"",">","."," ","(","b","a","s","e","l","i","n","e","-","d","i","s","a","b","l","e","-","n","e","x","t","-","l","i","n","e"," ","h","t","m","l",".","e","l","e","m","e","n","t","s",".","i","n","p","u","t",".","t","y","p","e","_","d","a","t","e",")">>

UPPER == <<"A","B","C","D","E","F","G","H","I","J","K","L","M","N","O","P","Q","R","S","T","U","V","W","X","Y","Z">>
LOWER == <<"a","b","c","d","e","f","g","h","i","j","k","l","m","n","o","p","q","r","s","t","u","v","w","x","y","z">>
\* the characters \s matches that occur in one line of text
WHITESPACE == {" ", "\t"}

(***************************************************************************)
(* String operations of JavaScript, on character sequences.                *)
(***************************************************************************)
\* String.prototype.includes
includes(text, pat) ==
    \E i \in 0..(Len(text) - Len(pat)) : SubSeq(text, i + 1, i + Len(pat)) = pat

\* String.prototype.startsWith
startsWith(text, pat) ==
    Len(pat) <= Len(text) /\ SubSeq(text, 1, Len(pat)) = pat

toLowerChar(c) ==
    IF \E i \in 1..Len(UPPER) : UPPER[i] = c
    THEN LOWER[CHOOSE i \in 1..Len(UPPER) : UPPER[i] = c]
    ELSE c

\* String.prototype.toLowerCase
toLowerCase(text) == [i \in 1..Len(text) |-> toLowerChar(text[i])]

\* the index of the first character at or after i that is not whitespace (Len + 1 when none)
RECURSIVE skipWhitespace(_, _)
skipWhitespace(text, i) ==
    IF i <= Len(text) /\ text[i] \in WHITESPACE THEN skipWhitespace(text, i + 1) ELSE i

\* /(oklch|oklab)/i.test(value)
testOklch(value) ==
    LET v == toLowerCase(value) IN includes(v, s_oklch) \/ includes(v, s_oklab)

\* /(sin|cos|tan)\s*\(/i.test(value)
testTrig(value) ==
    LET v == toLowerCase(value) IN
    \E i \in 1..Len(v) :
        /\ i + 2 <= Len(v)
        /\ SubSeq(v, i, i + 2) \in {s_sin, s_cos, s_tan}
        /\ LET j == skipWhitespace(v, i + 3) IN j <= Len(v) /\ v[j] = "("

(***************************************************************************)
(* Tokens.  k is the token's kind, a and b its texts, c its parts (the     *)
(* attributes of a markup tag, the tokens of an inline style).             *)
(*   style:  "ws" a | "open" a=selector | "atopen" a=name b=params |       *)
(*           "close" | "decl" a=prop b=value | "comment" a=text | "word" a *)
(***************************************************************************)
Tok(k, a, b) == [k |-> k, a |-> a, b |-> b, c |-> <<>>]
TokC(k, a, c) == [k |-> k, a |-> a, b |-> <<>>, c |-> c]

RECURSIVE Raw(_)
RECURSIVE RawLine(_)

\* the characters of a token
Raw(t) ==
    CASE t.k = "ws" -> t.a
      [] t.k = "open" -> t.a \o <<" ","{">>
      [] t.k = "atopen" -> <<"@">> \o t.a \o <<" ">> \o t.b \o <<" ","{">>
      [] t.k = "close" -> <<"}">>
      [] t.k = "decl" -> t.a \o <<":"," ">> \o t.b \o <<";">>
      [] t.k = "comment" -> <<"/","*"," ">> \o t.a \o <<" ","*","/">>
      [] t.k = "linecomment" -> <<"/","/"," ">> \o t.a
      [] t.k = "htmlcomment" -> <<"<","!","-","-"," ">> \o t.a \o <<" ","-","-",">">>
      [] t.k = "tag" -> <<"<">> \o t.a \o RawLine(t.c) \o <<">">>
      [] t.k = "attr" -> <<" ">> \o t.a \o <<"=", "\"">> \o (IF t.c # <<>> THEN RawLine(t.c) ELSE t.b)
                         \o <<"\"">>
      [] t.k = "endtag" -> <<"<", "/">> \o t.a \o <<">">>
      [] OTHER -> t.a

\* the text of a line
RawLine(line) == IF line = <<>> THEN <<>> ELSE Raw(Head(line)) \o RawLine(Tail(line))

\* the number of characters of the first n tokens of a line
RECURSIVE Width(_, _)
Width(line, n) == IF n = 0 THEN 0 ELSE Width(line, n - 1) + Len(Raw(line[n]))

\* the tokens of a document in reading order, each with the 1-based line and the
\* 0-based offset in its line of its first character
RECURSIVE Positioned(_, _)
Positioned(text, n) ==
    IF n > Len(text) THEN <<>>
    ELSE [j \in 1..Len(text[n]) |-> [t |-> text[n][j], line |-> n, offset |-> Width(text[n], j - 1)]]
         \o Positioned(text, n + 1)

(***************************************************************************)
(* postcss.parse: the node tree as the list of nodes in document order,    *)
(* each with the index of its parent container (0: the root).  Positions   *)
(* are postcss's: 1-based line and column, the end position inclusive.     *)
(* A CssSyntaxError (a stray word, an unexpected "}", an unclosed block)   *)
(* makes parse throw: ok is FALSE.                                         *)
(***************************************************************************)
Position(line, column) == [line |-> line, column |-> column]

CssNode(type, p, parent) ==
    [type |-> type,
     prop |-> IF type = "decl" THEN p.t.a ELSE <<>>,
     value |-> IF type = "decl" THEN p.t.b ELSE <<>>,
     text |-> IF type = "comment" THEN p.t.a ELSE <<>>,
     selector |-> IF type = "rule" THEN p.t.a ELSE <<>>,
     name |-> IF type = "atrule" THEN p.t.a ELSE <<>>,
     parent |-> parent,
     source |-> [start |-> Position(p.line, p.offset + 1),
                 end |-> Position(p.line, p.offset + Len(Raw(p.t)))]]

RECURSIVE postcssParseTokens(_, _, _, _)
postcssParseTokens(pt, i, stack, nodes) ==
    IF i > Len(pt) THEN [ok |-> stack = <<>>, nodes |-> nodes]
    ELSE
      LET p == pt[i]
          parent == IF stack = <<>> THEN 0 ELSE stack[Len(stack)]
      IN CASE p.t.k = "ws" -> postcssParseTokens(pt, i + 1, stack, nodes)
           [] p.t.k = "comment" ->
                postcssParseTokens(pt, i + 1, stack, Append(nodes, CssNode("comment", p, parent)))
           [] p.t.k = "decl" ->
                postcssParseTokens(pt, i + 1, stack, Append(nodes, CssNode("decl", p, parent)))
           [] p.t.k = "open" ->
                postcssParseTokens(pt, i + 1, Append(stack, Len(nodes) + 1),
                                   Append(nodes, CssNode("rule", p, parent)))
           [] p.t.k = "atopen" ->
                postcssParseTokens(pt, i + 1, Append(stack, Len(nodes) + 1),
                                   Append(nodes, CssNode("atrule", p, parent)))
           [] p.t.k = "close" ->
                IF stack = <<>> THEN [ok |-> FALSE, nodes |-> <<>>]
                ELSE postcssParseTokens(pt, i + 1, SubSeq(stack, 1, Len(stack) - 1),
                        [nodes EXCEPT ![parent].source.end = Position(p.line, p.offset + 1)])
           [] OTHER -> [ok |-> FALSE, nodes |-> <<>>]

postcssParse(cssContent) == postcssParseTokens(Positioned(cssContent, 1), 1, <<>>, <<>>)

\* node.prev(): the index of the previous sibling of node i, 0 when it is the first child
prev(nodes, i) ==
    LET sib == {j \in 1..(i - 1) : nodes[j].parent = nodes[i].parent}
    IN IF i = 0 \/ sib = {} THEN 0 ELSE CHOOSE j \in sib : \A m \in sib : m <= j

(***************************************************************************)
(* The remediation catalog: the entries of MANUAL_REMEDIATIONS and         *)
(* HTML_REMEDIATIONS for the feature identifiers the documents below can   *)
(* produce (the generated table merged under them is not part of the       *)
(* sources; manual entries override it).  Each entry is its list of fixes. *)
(***************************************************************************)
NoPayload ==
    [property |-> <<>>, value |-> <<>>, new |-> <<>>, message |-> <<>>, newProperty |-> <<>>]
Fix(type, payload) == [type |-> type, payload |-> payload]

REMEDIATION_DATABASE ==
    [k \in {fid_backdrop_filter, fid_text_wrap, fid_accent_color, fid_color_adjust,
            fid_functions_color_mix,
            fid_at_rules_container, fid_selectors_has, fid_keyCode, fid_ResizeObserver,
            fid_Map, fid_marquee, fid_input_type_date} |->
      CASE k = fid_backdrop_filter ->
             <<Fix("add-css-declaration",
                   [NoPayload EXCEPT !.property = s_background_color, !.value = s_rgba])>>
        [] k = fid_text_wrap -> <<Fix("remove-css-declaration", NoPayload)>>
        [] k = fid_accent_color -> <<Fix("remove-css-declaration", NoPayload)>>
        [] k = fid_color_adjust ->
             <<Fix("replace-css-declaration",
                   [NoPayload EXCEPT !.newProperty = s_print_color_adjust])>>
        [] k = fid_functions_color_mix ->
             <<Fix("add-comment-warning", [NoPayload EXCEPT !.message = msg_functions_color_mix])>>
        [] k = fid_at_rules_container ->
             <<Fix("add-comment-warning", [NoPayload EXCEPT !.message = msg_at_rules_container])>>
        [] k = fid_selectors_has ->
             <<Fix("add-comment-warning", [NoPayload EXCEPT !.message = msg_selectors_has])>>
        [] k = fid_keyCode -> <<Fix("replace-property", [NoPayload EXCEPT !.new = s_key])>>
        [] k = fid_ResizeObserver ->
             <<Fix("recommend-polyfill", [NoPayload EXCEPT !.message = msg_ResizeObserver])>>
        [] k = fid_Map ->
             <<Fix("recommend-polyfill", [NoPayload EXCEPT !.message = msg_Map])>>
        [] k = fid_marquee ->
             <<Fix("add-comment-warning", [NoPayload EXCEPT !.message = msg_marquee])>>
        [] k = fid_input_type_date ->
             <<Fix("recommend-polyfill", [NoPayload EXCEPT !.message = msg_input_type_date])>>]

\* REMEDIATION_DATABASE[featureId] is truthy
InDatabase(featureId) == featureId \in DOMAIN REMEDIATION_DATABASE

(***************************************************************************)
(* pushFinding                                                             *)
(***************************************************************************)
NoLoc == [none |-> TRUE]

\* mutant: duplicates are recognised by the feature identifier alone
pushFindingByFeature(list, featureId, loc) ==
    IF loc = NoLoc THEN list
    ELSE IF \E n \in 1..Len(list) : list[n].featureId = featureId
    THEN list
    ELSE Append(list,
           [featureId |-> featureId,
            type |-> IF startsWith(featureId, s_css) THEN "css-property" ELSE "js-property",
            line |-> loc.start.line,
            column |-> loc.start.column,
            endLine |-> IF loc.end.line # 0 THEN loc.end.line ELSE loc.start.line,
            endColumn |-> IF loc.end.column # 0 THEN loc.end.column ELSE loc.start.column + 1,
            fixId |-> featureId])

pushFinding(list, featureId, loc) ==
    IF loc = NoLoc THEN list
    ELSE IF \E n \in 1..Len(list) :
               /\ list[n].featureId = featureId
               /\ list[n].line = loc.start.line
               /\ list[n].column = loc.start.column
    THEN list
    ELSE Append(list,
           [featureId |-> featureId,
            type |-> IF startsWith(featureId, s_css) THEN "css-property" ELSE "js-property",
            line |-> loc.start.line,
            column |-> loc.start.column,
            endLine |-> IF loc.end.line # 0 THEN loc.end.line ELSE loc.start.line,
            endColumn |-> IF loc.end.column # 0 THEN loc.end.column ELSE loc.start.column + 1,
            fixId |-> featureId])

(***************************************************************************)
(* scanCss                                                                 *)
(***************************************************************************)
\* prev && prev.type === 'comment' && prev.text.includes(`baseline-disable-next-line ${featureId}`)
cssDirective(nodes, i, featureId) ==
    LET p == prev(nodes, i) IN
    /\ p # 0
    /\ nodes[p].type = "comment"
    /\ includes(nodes[p].text, DIRECTIVE \o featureId)

\* the while loop of the backdrop-filter case: the nearest previous sibling that is no comment
RECURSIVE skipComments(_, _)
skipComments(nodes, p) ==
    IF p # 0 /\ nodes[p].type = "comment" THEN skipComments(nodes, prev(nodes, p)) ELSE p

\* mutant: the fallback test looks at the sibling right before the declaration only
backdropFallbackImmediate(nodes, i) ==
    LET declPrev == prev(nodes, i) IN
    /\ declPrev # 0
    /\ nodes[declPrev].type = "decl"
    /\ nodes[declPrev].prop = s_background_color

backdropFallback(nodes, i) ==
    LET declPrev == skipComments(nodes, prev(nodes, i)) IN
    /\ declPrev # 0
    /\ nodes[declPrev].type = "decl"
    /\ nodes[declPrev].prop = s_background_color

\* the first part of the walkDecls callback, which may return early
declProperty(nodes, i, list) ==
    LET decl == nodes[i]
        featureId == CSS_PROPERTIES \o decl.prop
    IN IF ~InDatabase(featureId) THEN [list |-> list, returned |-> FALSE]
       ELSE IF cssDirective(nodes, i, featureId) THEN [list |-> list, returned |-> TRUE]
       ELSE IF decl.prop = s_backdrop_filter /\ backdropFallback(nodes, i)
       THEN [list |-> list, returned |-> TRUE]
       ELSE [list |-> pushFinding(list, featureId, decl.source), returned |-> FALSE]

\* the value checks of the walkDecls callback
declValue(decl, list) ==
    LET l1 == IF includes(decl.value, s_color_mix_open)
              THEN pushFinding(list, fid_functions_color_mix, decl.source) ELSE list
        l2 == IF testOklch(decl.value)
              THEN pushFinding(l1, fid_functions_oklch, decl.source) ELSE l1
    IN IF testTrig(decl.value) THEN pushFinding(l2, fid_functions_sin, decl.source) ELSE l2

walkDeclsCallback(nodes, i, list) ==
    LET r == declProperty(nodes, i, list)
    IN IF r.returned THEN r.list ELSE declValue(nodes[i], r.list)

walkAtRulesCallback(nodes, i, list) ==
    LET atRule == nodes[i]
        featureId == IF atRule.name = s_container THEN fid_at_rules_container
                     ELSE IF atRule.name = s_property THEN fid_at_rules_property
                     ELSE <<>>
    IN IF featureId # <<>> /\ InDatabase(featureId)
       THEN IF cssDirective(nodes, i, featureId) THEN list
            ELSE pushFinding(list, featureId, atRule.source)
       ELSE list

walkRulesCallback(nodes, i, list) ==
    LET rule == nodes[i] IN
    IF rule.selector # <<>> /\ includes(rule.selector, s_has_open) /\ InDatabase(fid_selectors_has)
    THEN IF cssDirective(nodes, i, fid_selectors_has) THEN list
         ELSE pushFinding(list, fid_selectors_has, rule.source)
    ELSE list

\* root.walkDecls / walkAtRules / walkRules: the callback on every node of the type, in document order
RECURSIVE walk(_, _, _, _)
walk(nodes, type, i, list) ==
    IF i > Len(nodes) THEN list
    ELSE walk(nodes, type, i + 1,
              IF nodes[i].type # type THEN list
              ELSE CASE type = "decl" -> walkDeclsCallback(nodes, i, list)
                     [] type = "atrule" -> walkAtRulesCallback(nodes, i, list)
                     [] type = "rule" -> walkRulesCallback(nodes, i, list))

\* a scan's outcome: the promise rejected, or resolved with a list; raised: an exception occurred inside
Resolved(list, r) == [rejected |-> FALSE, raised |-> r, findings |-> list]
Rejected == [rejected |-> TRUE, raised |-> TRUE, findings |-> <<>>]

scanCss(cssContent) ==
    LET root == postcssParse(cssContent) IN
    IF ~root.ok THEN Rejected
    ELSE Resolved(walk(root.nodes, "rule", 1,
                    walk(root.nodes, "atrule", 1,
                      walk(root.nodes, "decl", 1, <<>>))), FALSE)

(***************************************************************************)
(* Script documents.  Token kinds:                                         *)
(*   "code" a: program text holding no identifier of a watchlist           *)
(*   "ident" a=name: an identifier in expression position                  *)
(*   "bind" a=name: the identifier a const declaration declares            *)
(*   "prop" a=name: the property identifier of a member expression         *)
(*   "blockopen" / "blockclose": the braces of a block statement           *)
(*   "linecomment" a=text: // text                                         *)
(*   "bad" a: text the parser cannot recover from                          *)
(* A line of code is one statement.                                        *)
(***************************************************************************)
\* the names checkIdentifier is called with; each feature identifier is 'api.' + name
IDENTIFIER_WATCHLIST ==
    {s_ResizeObserver, s_globalThis, s_BigInt, s_Symbol, s_Map, s_Set, s_Worker, s_WebSocket,
     s_PaymentRequest, s_RTCPeerConnection}

\* the property names checkMember is called with that the documents below use, with their features
MEMBER_WATCHLIST == {<<s_keyCode, fid_keyCode>>, <<s_hasOwn, fid_Object_hasOwn>>}

\* @babel/traverse, Scope.globals: the built-in globals, for which Scope.hasBinding answers
\* true when called without the noGlobals option (the watchlisted ones among them)
SCOPE_GLOBALS == {s_globalThis, s_BigInt, s_Symbol, s_Map, s_Set}

JsStatementKinds == {"code", "ident", "bind", "prop"}

\* the tokens of a line that are not whitespace
Significant(line) == SelectSeq(line, LAMBDA t : t.k # "ws")

\* Babel's location of token j of line n: 1-based line, 0-based columns, the end exclusive
babelLoc(text, n, j) ==
    [start |-> Position(n, Width(text[n], j - 1)),
     end |-> Position(n, Width(text[n], j))]

\* the Identifier and MemberExpression nodes of one statement line
jsNodesOfLine(text, n, scope, leading) ==
    LET idx == SelectSeq([j \in 1..Len(text[n]) |-> j],
                         LAMBDA j : text[n][j].k \in {"ident", "bind", "prop"})
    IN [m \in 1..Len(idx) |->
          [kind |-> text[n][idx[m]].k,
           name |-> text[n][idx[m]].a,
           loc |-> babelLoc(text, n, idx[m]),
           scope |-> scope,
           leadingComments |-> leading]]

\* the names a statement line declares
Declared(line) == {line[j].a : j \in {m \in 1..Len(line) : line[m].k = "bind"}}

(***************************************************************************)
(* @babel/parser parse with errorRecovery, and the scope crawl traverse    *)
(* does before it visits.  The result: fatal (parse threw), duplicate (a   *)
(* redeclaration, which the parser recovers from and the crawl throws on), *)
(* the nodes in visiting order, the parent of each scope (scope 1 is the   *)
(* program) and the bindings as <<scope, name>>.                           *)
(***************************************************************************)
RECURSIVE babelParseLines(_, _, _, _, _)
babelParseLines(text, n, stack, pending, ast) ==
    IF n > Len(text)
    THEN [ast EXCEPT !.fatal = (Len(stack) # 1)]
    ELSE
      LET line == Significant(text[n])
          kinds == {line[j].k : j \in 1..Len(line)}
          scope == stack[Len(stack)]
      IN CASE line = <<>> -> babelParseLines(text, n + 1, stack, pending, ast)
           [] kinds = {"linecomment"} ->
                babelParseLines(text, n + 1, stack,
                    pending \o [j \in 1..Len(line) |-> <<" ">> \o line[j].a], ast)
           [] kinds = {"blockopen"} ->
                babelParseLines(text, n + 1, Append(stack, Len(ast.scopeParent) + 1), <<>>,
                    [ast EXCEPT !.scopeParent = Append(@, scope)])
           [] kinds = {"blockclose"} ->
                IF Len(stack) = 1 THEN [ast EXCEPT !.fatal = TRUE]
                ELSE babelParseLines(text, n + 1, SubSeq(stack, 1, Len(stack) - 1), <<>>, ast)
           [] kinds \subseteq JsStatementKinds ->
                babelParseLines(text, n + 1, stack, <<>>,
                    [ast EXCEPT
                       !.nodes = @ \o jsNodesOfLine(text, n, scope, pending),
                       !.duplicate = @ \/ \E name \in Declared(text[n]) :
                                             <<scope, name>> \in ast.bindings,
                       !.bindings = @ \cup {<<scope, name>> : name \in Declared(text[n])}])
           [] OTHER -> [ast EXCEPT !.fatal = TRUE]

babelParse(jsContent) ==
    babelParseLines(jsContent, 1, <<1>>, <<>>,
        [fatal |-> FALSE, duplicate |-> FALSE, nodes |-> <<>>, scopeParent |-> <<0>>,
         bindings |-> {}])

\* path.scope.hasBinding(name): a binding in the scope or one around it, or a built-in global
RECURSIVE hasOwnBindingUpwards(_, _, _)
hasOwnBindingUpwards(ast, scope, name) ==
    IF scope = 0 THEN FALSE
    ELSE <<scope, name>> \in ast.bindings
         \/ hasOwnBindingUpwards(ast, ast.scopeParent[scope], name)

hasBinding(ast, scope, name) ==
    hasOwnBindingUpwards(ast, scope, name) \/ name \in SCOPE_GLOBALS

\* a leading comment of the parent statement holds the directive text
jsDirective(node, featureId) ==
    \E m \in 1..Len(node.leadingComments) :
        includes(node.leadingComments[m], DIRECTIVE \o featureId)

checkIdentifier(ast, node, name, list) ==
    IF node.name = name
    THEN IF hasBinding(ast, node.scope, name) THEN list
         ELSE IF jsDirective(node, s_api_dot \o name) THEN list
         ELSE pushFinding(list, s_api_dot \o name, node.loc)
    ELSE list

checkMember(node, propertyName, featureId, list) ==
    IF node.kind = "prop" /\ node.name = propertyName
    THEN IF jsDirective(node, featureId) THEN list
         ELSE pushFinding(list, featureId, node.loc)
    ELSE list

\* the visitors called on one node: MemberExpression on entering a member expression, then
\* Identifier on its property; Identifier on every other identifier
visitNode(ast, node, list) ==
    LET name == node.name
        l1 == IF node.kind = "prop" /\ \E w \in MEMBER_WATCHLIST : w[1] = name
              THEN checkMember(node, name, (CHOOSE w \in MEMBER_WATCHLIST : w[1] = name)[2], list)
              ELSE list
    IN IF name \in IDENTIFIER_WATCHLIST THEN checkIdentifier(ast, node, name, l1) ELSE l1

RECURSIVE traverse(_, _, _)
traverse(ast, i, list) ==
    IF i > Len(ast.nodes) THEN list
    ELSE traverse(ast, i + 1, visitNode(ast, ast.nodes[i], list))

\* mutant: without the try/catch, an exception of parse or traverse rejects the promise
scanJsUncaught(jsContent) ==
    LET ast == babelParse(jsContent) IN
    IF ast.fatal \/ ast.duplicate THEN Rejected
    ELSE Resolved(traverse(ast, 1, <<>>), FALSE)

(***************************************************************************)
(* scanJs: whatever parse or traverse throws is caught and the list, still *)
(* empty then, is returned.                                                *)
(***************************************************************************)
scanJs(jsContent) ==
    LET ast == babelParse(jsContent) IN
    IF ast.fatal \/ ast.duplicate THEN Resolved(<<>>, TRUE)
    ELSE Resolved(traverse(ast, 1, <<>>), FALSE)

(***************************************************************************)
(* Markup documents.  Token kinds:                                         *)
(*   "tag" a=name c=attributes: a start tag; an attribute is "attr" a=name *)
(*          b=value, or for style="..." c=the style tokens of the value    *)
(*   "endtag" a=name | "chars" a: character data | "htmlcomment" a=text    *)
(* Between <style> or <script> and its end tag stand style or script       *)
(* tokens: the raw text of the element.                                    *)
(***************************************************************************)
DEPRECATED_ELEMENTS ==
    {s_marquee, <<"b","l","i","n","k">>, <<"c","e","n","t","e","r">>, <<"f","o","n","t">>, <<"b","i","g">>, <<"s","t","r","i","k","e">>, <<"t","t">>}
MODERN_ELEMENTS == {<<"d","i","a","l","o","g">>, <<"d","e","t","a","i","l","s">>, <<"s","u","m","m","a","r","y">>}
NON_BASELINE_ATTRS == {<<"p","o","p","o","v","e","r">>, <<"i","n","e","r","t">>, <<"e","n","t","e","r","k","e","y","h","i","n","t">>}
NON_BASELINE_TYPES == {s_date, <<"c","o","l","o","r">>, <<"d","a","t","e","t","i","m","e","-","l","o","c","a","l">>, <<"m","o","n","t","h">>, <<"w","e","e","k">>, <<"t","i","m","e">>}
RAW_TEXT_ELEMENTS == {s_style, s_script}

\* the value of an attribute, as parse5 reports it
attrValue(attr) == IF attr.c # <<>> THEN RawLine(attr.c) ELSE attr.b

\* String.prototype.replace(from, to) with one-character strings: the first occurrence only
replaceFirst(text, from, to) ==
    IF \E i \in 1..Len(text) : text[i] = from
    THEN [text EXCEPT ![CHOOSE i \in 1..Len(text) :
                          text[i] = from /\ \A j \in 1..(i - 1) : text[j] # from] = to]
    ELSE text

(***************************************************************************)
(* pushHtmlFinding                                                         *)
(***************************************************************************)
pushHtmlFinding(list, featureId, line, column) ==
    IF \E n \in 1..Len(list) :
         list[n].featureId = featureId /\ list[n].line = line /\ list[n].column = column
    THEN list
    ELSE Append(list,
           [featureId |-> featureId, type |-> "css-property", line |-> line, column |-> column,
            endLine |-> line, endColumn |-> column + 10, fixId |-> featureId])

(***************************************************************************)
(* checkHtmlAttribute                                                      *)
(***************************************************************************)
checkHtmlAttribute(attr, tagName, location, list) ==
    LET attrName == toLowerCase(attr.a)
        globalId == HTML_GLOBAL_ATTRIBUTES \o attrName
        l1 == IF attrName \in NON_BASELINE_ATTRS /\ InDatabase(globalId)
              THEN pushHtmlFinding(list, globalId, location.startLine, location.startCol)
              ELSE list
        typeValue == toLowerCase(attrValue(attr))
        typeId == HTML_ELEMENTS \o s_input_type_ \o replaceFirst(typeValue, "-", "_")
        l2 == IF /\ tagName = s_input /\ attrName = s_type
                 /\ typeValue \in NON_BASELINE_TYPES /\ InDatabase(typeId)
              THEN pushHtmlFinding(l1, typeId, location.startLine, location.startCol)
              ELSE l1
        loadingId == HTML_ELEMENTS \o tagName \o s_dot_loading
    IN IF attrName = s_loading /\ tagName \in {s_img, s_iframe} /\ InDatabase(loadingId)
       THEN pushHtmlFinding(l2, loadingId, location.startLine, location.startCol)
       ELSE l2

RECURSIVE checkHtmlAttributes(_, _, _, _, _)
checkHtmlAttributes(attrs, i, tagName, location, list) ==
    IF i > Len(attrs) THEN list
    ELSE checkHtmlAttributes(attrs, i + 1, tagName, location,
                             checkHtmlAttribute(attrs[i], tagName, location, list))

(***************************************************************************)
(* parse5: the raw text of a <style> or <script> element whose start tag   *)
(* is token j of line n, as the lines of the text node (its first line is  *)
(* what follows the start tag on line n).                                  *)
(***************************************************************************)
closesAt(line, name) == {e \in 1..Len(line) : line[e].k = "endtag" /\ line[e].a = name}

RECURSIVE rawTextLines(_, _, _, _)
rawTextLines(text, n, j, name) ==
    LET rest == SubSeq(text[n], j, Len(text[n]))
        ends == closesAt(rest, name)
    IN IF ends # {}
       THEN <<SubSeq(rest, 1, (CHOOSE e \in ends : \A x \in ends : e <= x) - 1)>>
       ELSE IF n = Len(text) THEN <<rest>>
       ELSE <<rest>> \o rawTextLines(text, n + 1, 1, name)

\* child.value is a non-empty string
hasValue(lines) == Len(lines) > 1 \/ RawLine(lines[1]) # <<>>

(***************************************************************************)
(* checkHtmlElement.  The scans of embedded fragments are asynchronous and *)
(* not awaited: deferred collects them, in call order.                     *)
(***************************************************************************)
checkHtmlElement(text, n, j, acc) ==
    LET node == text[n][j]
        tagName == toLowerCase(node.a)
        location == [startLine |-> n, startCol |-> Width(text[n], j - 1) + 1]
        elementId == HTML_ELEMENTS \o tagName
        l1 == IF tagName \in DEPRECATED_ELEMENTS /\ InDatabase(elementId)
              THEN pushHtmlFinding(acc.list, elementId, location.startLine, location.startCol)
              ELSE acc.list
        l2 == IF tagName \in MODERN_ELEMENTS /\ InDatabase(elementId)
              THEN pushHtmlFinding(l1, elementId, location.startLine, location.startCol)
              ELSE l1
        l3 == checkHtmlAttributes(node.c, 1, tagName, location, l2)
        styles == SelectSeq(node.c, LAMBDA a : a.a = s_style)
        d1 == IF styles # <<>> /\ attrValue(styles[1]) # <<>>
              THEN <<[kind |-> "css", content |-> <<styles[1].c>>, baseLine |-> location.startLine]>>
              ELSE <<>>
        body == rawTextLines(text, n, j + 1, tagName)
        d2 == IF tagName = s_script /\ hasValue(body)
              THEN <<[kind |-> "js", content |-> body, baseLine |-> location.startLine]>>
              ELSE <<>>
        d3 == IF tagName = s_style /\ hasValue(body)
              THEN <<[kind |-> "css", content |-> body, baseLine |-> location.startLine]>>
              ELSE <<>>
    IN [list |-> l3, deferred |-> acc.deferred \o d1 \o d2 \o d3]

(***************************************************************************)
(* traverseHtmlNode over parse5's tree: checkHtmlElement on every element  *)
(* in document order.  raw is the name of the raw-text element the walk is *)
(* inside of (<<>>: none), whose text holds no elements.                   *)
(***************************************************************************)
RECURSIVE traverseHtmlNode(_, _, _, _, _)
traverseHtmlNode(text, n, j, raw, acc) ==
    IF n > Len(text) THEN acc
    ELSE IF j > Len(text[n]) THEN traverseHtmlNode(text, n + 1, 1, raw, acc)
    ELSE LET t == text[n][j] IN
         IF raw # <<>>
         THEN traverseHtmlNode(text, n, j + 1,
                               IF t.k = "endtag" /\ t.a = raw THEN <<>> ELSE raw, acc)
         ELSE IF t.k = "tag"
         THEN traverseHtmlNode(text, n, j + 1,
                               IF toLowerCase(t.a) \in RAW_TEXT_ELEMENTS THEN toLowerCase(t.a) ELSE <<>>,
                               checkHtmlElement(text, n, j, acc))
         ELSE traverseHtmlNode(text, n, j + 1, raw, acc)

(***************************************************************************)
(* checkInlineStyle / checkStyleBlock / checkInlineScript: the Findings of *)
(* the fragment's scan, each line shifted by baseLine, pushed onto the     *)
(* list; a rejected scan is caught and adds nothing.                       *)
(***************************************************************************)
\* mutant: the Findings of a fragment keep the lines of the fragment's scan
unshifted(list, baseLine) == list

shifted(list, baseLine) == [n \in 1..Len(list) |-> [list[n] EXCEPT !.line = @ + baseLine]]

\* mutant: without the try/catch, a scan that rejects rejects the promise of the check
checkFragmentSettlesUncaught(d) ==
    IF (IF d.kind = "css" THEN scanCss(d.content) ELSE scanJs(d.content)).rejected
    THEN "rejected" ELSE "fulfilled"

\* how the promise of checkInlineStyle / checkInlineScript / checkStyleBlock settles:
\* the whole body is inside try, and the catch returns normally
checkFragmentSettles(d) == "fulfilled"

checkFragment(d, list) ==
    LET r == IF d.kind = "css" THEN scanCss(d.content) ELSE scanJs(d.content)
    IN IF r.rejected THEN list ELSE list \o shifted(r.findings, d.baseLine)

RECURSIVE runDeferred(_, _)
runDeferred(deferred, list) ==
    IF deferred = <<>> THEN list
    ELSE runDeferred(Tail(deferred), checkFragment(Head(deferred), list))

(***************************************************************************)
(* scanHtml, as its caller sees the list once the promise has resolved and *)
(* the continuations of the fragment scans, queued before it, have run.    *)
(***************************************************************************)
scanHtml(htmlContent) ==
    LET acc == traverseHtmlNode(htmlContent, 1, 1, <<>>, [list |-> <<>>, deferred |-> <<>>])
    IN Resolved(runDeferred(acc.deferred, acc.list), FALSE)

(***************************************************************************)
(* scanCode                                                                *)
(***************************************************************************)
scanCode(content, language) ==
    IF language = "css" THEN scanCss(content)
    ELSE IF language \in {"javascript", "typescript", "typescriptreact"} THEN scanJs(content)
    ELSE IF language = "html" THEN scanHtml(content)
    ELSE Resolved(<<>>, FALSE)

(***************************************************************************)
(* The editor's text document (vscode.TextDocument), over the token lines. *)
(* Editor positions are 0-based: [line, character].                        *)
(***************************************************************************)
\* document.lineAt(n).text
lineText(text, n) == RawLine(text[n + 1])

\* TextLine.firstNonWhitespaceCharacterIndex (the line's length when it is all whitespace)
firstNonWhitespaceCharacterIndex(chars) == skipWhitespace(chars, 1) - 1

\* line.text.substring(0, line.firstNonWhitespaceCharacterIndex)
indentationOf(text, n) ==
    SubSeq(lineText(text, n), 1, firstNonWhitespaceCharacterIndex(lineText(text, n)))

EditorPosition(line, character) == [line |-> line, character |-> character]
Range(s, e) == [start |-> s, end |-> e]

\* TextLine.range.start
lineStart(n) == EditorPosition(n, 0)

\* mutant: the range deleted is empty (the line's start taken for both ends)
rangeAtLineStart(text, n) == Range(lineStart(n), lineStart(n))

\* TextLine.rangeIncludingLineBreak: to the start of the next line, or to the end of the last line
rangeIncludingLineBreak(text, n) ==
    IF n + 1 < Len(text) THEN Range(lineStart(n), lineStart(n + 1))
    ELSE Range(lineStart(n), EditorPosition(n, Len(lineText(text, n))))

Max0(x) == IF x < 0 THEN 0 ELSE x

(***************************************************************************)
(* findingToDiagnostic                                                     *)
(***************************************************************************)
findingToDiagnostic(finding) ==
    LET startLine == Max0(finding.line - 1)
        startCol == Max0(finding.column - 1)
        endLine == Max0((IF finding.endLine # 0 THEN finding.endLine ELSE finding.line) - 1)
        endCol == Max0((IF finding.endColumn # 0 THEN finding.endColumn
                        ELSE finding.column + 10) - 1)
    IN [range |-> Range(EditorPosition(startLine, startCol), EditorPosition(endLine, endCol)),
        code |-> finding.fixId]

(***************************************************************************)
(* getRemediation and FixProvider.applyFix / createFixAction.  An edit of  *)
(* a WorkspaceEdit is [kind, range, newLine]: newLine holds the tokens of  *)
(* an inserted line (its text is their raw characters followed by the      *)
(* document's line ending), newText the characters of a replacement.       *)
(***************************************************************************)
\* mutant: a fixId the catalog does not have gets the Remediation of text-wrap
getRemediationOrSome(fixId) ==
    IF InDatabase(fixId) THEN REMEDIATION_DATABASE[fixId]
    ELSE REMEDIATION_DATABASE[fid_text_wrap]

getRemediation(fixId) ==
    IF InDatabase(fixId) THEN REMEDIATION_DATABASE[fixId] ELSE <<>>

Indented(indentation, tok) ==
    IF indentation = <<>> THEN <<tok>> ELSE <<Tok("ws", indentation, <<>>), tok>>

InsertLine(at, line) ==
    [kind |-> "insert", range |-> Range(at, at), newLine |-> line, newText |-> <<>>]

\* the comment in the syntax the fix picks for the document
commentToken(language, message) ==
    IF language = "html" THEN Tok("htmlcomment", message, <<>>)
    ELSE IF language = "css" THEN Tok("comment", message, <<>>)
    ELSE Tok("linecomment", message, <<>>)

applyFix(text, language, diagnostic, fix) ==
    LET n == diagnostic.range.start.line IN
    CASE fix.type = "add-css-declaration" ->
           <<InsertLine(lineStart(n),
                Indented(indentationOf(text, n), Tok("decl", fix.payload.property, fix.payload.value)))>>
      [] fix.type = "replace-property" ->
           <<[kind |-> "replace", range |-> diagnostic.range, newLine |-> <<>>,
              newText |-> fix.payload.new]>>
      [] fix.type = "remove-css-declaration" ->
           <<[kind |-> "delete", range |-> rangeIncludingLineBreak(text, n), newLine |-> <<>>,
              newText |-> <<>>]>>
      [] fix.type \in {"add-comment-warning", "recommend-polyfill"} ->
           <<InsertLine(lineStart(n),
                Indented(indentationOf(text, n), commentToken(language, fix.payload.message)))>>
      [] OTHER -> <<>>

\* TextDocument.lineAt(n) throws unless the document has line n
hasLine(text, n) == n >= 0 /\ n < Len(text)

\* whether provideCodeActions returns its actions: applyFix calls document.lineAt on the
\* diagnostic's line for every fix type it handles but replace-property
providesCodeActions(text, diagnostic) ==
    LET remediation == getRemediation(diagnostic.code) IN
    IF remediation = <<>> THEN TRUE
    ELSE IF remediation[1].type \in {"add-css-declaration", "remove-css-declaration",
                                     "add-comment-warning", "recommend-polyfill"}
    THEN hasLine(text, diagnostic.range.start.line)
    ELSE TRUE

\* the WorkspaceEdit of the quick fix offered for one diagnostic
createFixAction(text, language, diagnostic) ==
    LET remediation == getRemediation(diagnostic.code) IN
    IF remediation = <<>> THEN <<>>
    ELSE applyFix(text, language, diagnostic, remediation[1])

(***************************************************************************)
(* Applying an edit to the document, as the editor does.                   *)
(***************************************************************************)
RemoveAt(s, i) == SubSeq(s, 1, i - 1) \o SubSeq(s, i + 1, Len(s))
InsertAt(s, i, x) == SubSeq(s, 1, i - 1) \o <<x>> \o SubSeq(s, i, Len(s))
Min(x, y) == IF x < y THEN x ELSE y

\* characters [from, to) of a line replaced by newText; the line is no longer tokenised
splice(line, from, to, newText) ==
    LET chars == RawLine(line)
        f == Min(from, Len(chars))
        t == Min(to, Len(chars))
    IN <<Tok("text", SubSeq(chars, 1, f) \o newText \o SubSeq(chars, t + 1, Len(chars)), <<>>)>>

applyEdit(text, e) ==
    LET n == e.range.start.line + 1 IN
    CASE e.kind = "insert" -> InsertAt(text, n, e.newLine)
      [] e.kind \in {"delete", "replace"} ->
           IF e.range.end.line > e.range.start.line THEN RemoveAt(text, n)
           ELSE IF e.range.start = e.range.end /\ e.newText = <<>> THEN text
           ELSE IF /\ e.range.start.character = 0
                   /\ e.range.end.character >= Len(RawLine(text[n]))
                   /\ e.newText = <<>>
           THEN [text EXCEPT ![n] = <<>>]
           ELSE [text EXCEPT ![n] = splice(text[n], e.range.start.character,
                                           e.range.end.character, e.newText)]

RECURSIVE applyEdits(_, _)
applyEdits(text, edits) ==
    IF edits = <<>> THEN text ELSE applyEdits(applyEdit(text, Head(edits)), Tail(edits))

\* whether every line is still tokenised (no range replacement has rewritten part of one)
Tokenised(text) == \A n \in 1..Len(text) : \A j \in 1..Len(text[n]) : text[n][j].k # "text"

(***************************************************************************)
(* FixProvider.provideCodeActions: the 'Fix all' batch.                    *)
(***************************************************************************)
\* the sort comparator of provideCodeActions: negative when a goes first
compareDiagnostics(a, b) ==
    LET lineDiff == b.range.start.line - a.range.start.line IN
    IF lineDiff # 0 THEN lineDiff ELSE b.range.start.character - a.range.start.character

\* mutant: the diagnostics are processed in the order the editor hands them over
unsortedDiagnostics(diagnostics) == diagnostics

\* Array.prototype.sort with compareDiagnostics (a stable sort)
sortDiagnostics(diagnostics) ==
    LET goesBefore(j, i) ==
            \/ compareDiagnostics(diagnostics[j], diagnostics[i]) < 0
            \/ compareDiagnostics(diagnostics[j], diagnostics[i]) = 0 /\ j < i
        rank(i) == Cardinality({j \in 1..Len(diagnostics) : goesBefore(j, i)}) + 1
    IN [k \in 1..Len(diagnostics) |-> diagnostics[CHOOSE i \in 1..Len(diagnostics) : rank(i) = k]]

INSERT_FIX_TYPES == {"add-comment-warning", "recommend-polyfill", "add-css-declaration"}

\* mutant: every edit is composed for the line its diagnostic would be on once the
\* insertions composed before it were applied
RECURSIVE fixAllLoopFromShifting(_, _, _, _, _)
fixAllLoopFromShifting(text, language, sorted, i, processedInsertPositions) ==
    IF i > Len(sorted) THEN <<>>
    ELSE LET diagnostic == sorted[i]
             remediation == getRemediation(diagnostic.code)
             insertPosKey == <<diagnostic.range.start.line, 0>>
             inserts == remediation # <<>> /\ remediation[1].type \in INSERT_FIX_TYPES
             skips == remediation = <<>> \/ (inserts /\ insertPosKey \in processedInsertPositions)
             n == diagnostic.range.start.line + Cardinality(processedInsertPositions)
             moved == [diagnostic EXCEPT !.range.start.line = IF n < Len(text) THEN n ELSE @]
         IN <<[diagnostic |-> diagnostic,
               edits |-> IF skips THEN <<>>
                         ELSE applyFix(text, language, moved, remediation[1])]>>
            \o fixAllLoopFromShifting(text, language, sorted, i + 1,
                                      IF inserts THEN processedInsertPositions \cup {insertPosKey}
                                      ELSE processedInsertPositions)

\* mutant: every insertion is composed, whether or not its position is taken
RECURSIVE fixAllLoopFromRepeating(_, _, _, _, _)
fixAllLoopFromRepeating(text, language, sorted, i, processedInsertPositions) ==
    IF i > Len(sorted) THEN <<>>
    ELSE LET diagnostic == sorted[i]
             remediation == getRemediation(diagnostic.code)
         IN <<[diagnostic |-> diagnostic,
               edits |-> IF remediation = <<>> THEN <<>>
                         ELSE applyFix(text, language, diagnostic, remediation[1])]>>
            \o fixAllLoopFromRepeating(text, language, sorted, i + 1, processedInsertPositions)

\* the loop over the sorted diagnostics from the i-th on: each diagnostic visited, with
\* the edits made for it
RECURSIVE fixAllLoopFrom(_, _, _, _, _)
fixAllLoopFrom(text, language, sorted, i, processedInsertPositions) ==
    IF i > Len(sorted) THEN <<>>
    ELSE LET diagnostic == sorted[i]
             remediation == getRemediation(diagnostic.code)
             insertPosKey == <<diagnostic.range.start.line, 0>>
             inserts == remediation # <<>> /\ remediation[1].type \in INSERT_FIX_TYPES
             skips == remediation = <<>> \/ (inserts /\ insertPosKey \in processedInsertPositions)
         IN <<[diagnostic |-> diagnostic,
               edits |-> IF skips THEN <<>>
                         ELSE applyFix(text, language, diagnostic, remediation[1])]>>
            \o fixAllLoopFrom(text, language, sorted, i + 1,
                              IF inserts THEN processedInsertPositions \cup {insertPosKey}
                              ELSE processedInsertPositions)

fixAllLoop(text, language, sorted) == fixAllLoopFrom(text, language, sorted, 1, {})

\* the edits of a batch, in the order they were added to the WorkspaceEdit
RECURSIVE editsOf(_)
editsOf(visited) ==
    IF visited = <<>> THEN <<>> ELSE Head(visited).edits \o editsOf(Tail(visited))

\* provideCodeActions on the diagnostics of one request: whether 'Fix all' is offered,
\* and the diagnostics its loop visits
provideCodeActions(text, language, context) ==
    IF Len(context) > 1 /\ language # "html"
    THEN [offered |-> TRUE, visited |-> fixAllLoop(text, language, sortDiagnostics(context))]
    ELSE [offered |-> FALSE, visited |-> <<>>]

(***************************************************************************)
(* The baseline.fixAllInFile command (extension.ts).                       *)
(***************************************************************************)
applyFixToEdit(text, language, diagnostic, fix) ==
    LET n == diagnostic.range.start.line IN
    CASE fix.type = "add-css-declaration" ->
           <<InsertLine(lineStart(n),
                Indented(indentationOf(text, n), Tok("decl", fix.payload.property, fix.payload.value)))>>
      [] fix.type = "replace-property" ->
           <<[kind |-> "replace", range |-> diagnostic.range, newLine |-> <<>>,
              newText |-> fix.payload.new]>>
      [] fix.type = "remove-css-declaration" ->
           <<[kind |-> "delete", range |-> rangeIncludingLineBreak(text, n), newLine |-> <<>>,
              newText |-> <<>>]>>
      [] fix.type \in {"add-comment-warning", "recommend-polyfill"} ->
           <<InsertLine(lineStart(n),
                Indented(indentationOf(text, n),
                         IF language = "css" THEN Tok("comment", fix.payload.message, <<>>)
                         ELSE Tok("linecomment", fix.payload.message, <<>>)))>>
      [] OTHER -> <<>>

\* the loop of the command over the file's diagnostics, in the collection's order
RECURSIVE fixAllInFileLoop(_, _, _, _)
fixAllInFileLoop(text, language, diagnostics, i) ==
    IF i > Len(diagnostics) THEN <<>>
    ELSE LET remediation == getRemediation(diagnostics[i].code) IN
         <<[diagnostic |-> diagnostics[i],
            edits |-> IF remediation = <<>> THEN <<>>
                      ELSE applyFixToEdit(text, language, diagnostics[i], remediation[1])]>>
         \o fixAllInFileLoop(text, language, diagnostics, i + 1)

(***************************************************************************)
(* A WorkspaceEdit applied by the editor: every range is a range of the    *)
(* text before the edit; edits whose ranges overlap are refused as a       *)
(* whole, touching ranges are not.                                         *)
(***************************************************************************)
isBefore(p, q) == p.line < q.line \/ (p.line = q.line /\ p.character < q.character)

overlapping(e1, e2) ==
    /\ isBefore(e1.range.start, e2.range.end)
    /\ isBefore(e2.range.start, e1.range.end)

hasOverlappingRanges(edits) ==
    \E i, j \in 1..Len(edits) : i # j /\ overlapping(edits[i], edits[j])

\* the edits from the last position of the text to the first; at one position, what a
\* deletion or replacement removes goes before what is inserted there, and of two
\* insertions the later one of the batch goes first, so that applying them one after
\* the other leaves the inserted texts in the batch's order
fromTheEnd(edits) ==
    LET empty(e) == e.range.start = e.range.end
        goesBefore(j, i) ==
            \/ isBefore(edits[i].range.start, edits[j].range.start)
            \/ /\ edits[i].range.start = edits[j].range.start
               /\ \/ ~empty(edits[j]) /\ empty(edits[i])
                  \/ empty(edits[j]) = empty(edits[i]) /\ j > i
        rank(i) == Cardinality({j \in 1..Len(edits) : goesBefore(j, i)}) + 1
    IN [k \in 1..Len(edits) |-> edits[CHOOSE i \in 1..Len(edits) : rank(i) = k]]

applyWorkspaceEdit(text, edits) ==
    IF hasOverlappingRanges(edits) THEN [success |-> FALSE, text |-> text]
    ELSE [success |-> TRUE, text |-> applyEdits(text, fromTheEnd(edits))]

(***************************************************************************)
(* Style documents.                                                        *)
(***************************************************************************)
Indent == <<" "," ">>
Blank == Tok("ws", <<" ">>, <<>>)
CssLines ==
    { <<Tok("open", s_dot_a, <<>>)>>,                                   \* .a {
      <<Tok("close", <<>>, <<>>)>>,                                     \* }
      <<Tok("ws", Indent, <<>>), Tok("decl", s_text_wrap, s_balance)>>, \*   text-wrap: balance;
      <<Tok("ws", Indent, <<>>), Tok("decl", s_backdrop_filter, s_blur)>>,
      <<Tok("ws", Indent, <<>>), Tok("decl", s_background_color, s_red)>>,
      \*   /* baseline-disable-next-line css.properties.text-wrap-mode */
      <<Tok("ws", Indent, <<>>), Tok("comment", DIRECTIVE \o fid_text_wrap_mode, <<>>)>>,
      \*   /* baseline-disable-next-line css.properties.backdrop-filter */
      <<Tok("ws", Indent, <<>>), Tok("comment", DIRECTIVE \o fid_backdrop_filter, <<>>)>>,
      \*   accent-color: color-mix(in srgb, red, blue);
      <<Tok("ws", Indent, <<>>), Tok("decl", s_accent_color, s_color_mix_value)>>,
      \* .a { text-wrap: balance; }
      <<Tok("open", s_dot_a, <<>>), Blank, Tok("decl", s_text_wrap, s_balance), Blank,
        Tok("close", <<>>, <<>>)>>,
      \* @container (min-width: 1px) {
      <<Tok("atopen", s_container, s_min_width)>>,
      \* .a:has(.b) {
      <<Tok("open", s_a_has_b, <<>>)>> }

Documents(lines) == UNION {[1..n -> lines] : n \in 1..MaxLines}

(***************************************************************************)
(* The session: one open document, scanned on change (updateDiagnostics),  *)
(* and quick fixes applied to it.                                          *)
(***************************************************************************)
NoFix == [done |-> FALSE]
NoBatch == [by |-> "none"]
NoCall == [pc |-> "none"]
NoOracle == [pc |-> "none"]
NoRun == [pc |-> "none"]
NoWorkspace == [pc |-> "none"]
NoSync == [pc |-> "none"]

InitWith(language, documents) ==
    /\ languageId = language
    /\ doc \in documents
    /\ phase = "dirty"
    /\ findings = <<>>
    /\ raised = FALSE
    /\ applied = NoFix
    /\ nFixes = 0
    /\ batch = NoBatch
    /\ call = NoCall
    /\ oracle = NoOracle
    /\ cli = NoRun
    /\ workspace = NoWorkspace
    /\ autoSync = NoSync

Init == InitWith("css", Documents(CssLines))

\* no document is open
NoSession ==
    /\ languageId = "none"
    /\ doc = <<>>
    /\ phase = "closed"
    /\ findings = <<>>
    /\ raised = FALSE
    /\ applied = NoFix
    /\ nFixes = 0
    /\ batch = NoBatch

\* updateDiagnostics: scanCode on the document's text; a rejection leaves the diagnostics as they were
updateDiagnostics ==
    /\ phase = "dirty"
    /\ Tokenised(doc)
    /\ LET r == scanCode(doc, languageId) IN
       /\ phase' = IF r.rejected THEN "rejected" ELSE "scanned"
       /\ findings' = IF r.rejected THEN findings ELSE r.findings
       /\ raised' = r.raised
    /\ UNCHANGED <<languageId, doc, applied, nFixes, batch, call, oracle, cli, workspace, autoSync>>

\* the user applies the quick fix of diagnostic d
QuickFix(d) ==
    /\ phase = "scanned"
    /\ nFixes < MaxFixes
    /\ providesCodeActions(doc, findingToDiagnostic(findings[d]))
    /\ LET edits == createFixAction(doc, languageId, findingToDiagnostic(findings[d])) IN
       /\ doc' = applyEdits(doc, edits)
       /\ phase' = IF edits = <<>> THEN phase ELSE "dirty"
       /\ applied' = [done |-> TRUE, finding |-> findings[d], edits |-> edits,
                      before |-> doc, foundBefore |-> findings]
    /\ nFixes' = nFixes + 1
    /\ UNCHANGED <<languageId, findings, raised, batch, call, oracle, cli, workspace, autoSync>>

Next ==
    \/ updateDiagnostics
    \/ \E d \in 1..Len(findings) : QuickFix(d)

Spec == Init /\ [][Next]_vars

(***************************************************************************)
(* Script documents of the session.                                        *)
(***************************************************************************)
JsLines ==
    { \* const Map = 5;
      <<Tok("code", <<"c","o","n","s","t"," ">>, <<>>), Tok("bind", s_Map, <<>>), Tok("code", <<" ","="," ","5",";">>, <<>>)>>,
      \* Map + 1;
      <<Tok("ident", s_Map, <<>>), Tok("code", <<" ","+"," ","1",";">>, <<>>)>>,
      \* new ResizeObserver(cb);
      <<Tok("code", <<"n","e","w"," ">>, <<>>), Tok("ident", s_ResizeObserver, <<>>), Tok("code", <<"(","c","b",")",";">>, <<>>)>>,
      \* if (e.keyCode === 27) {}
      <<Tok("code", <<"i","f"," ","(","e",".">>, <<>>), Tok("prop", s_keyCode, <<>>), Tok("code", s_eq27, <<>>)>>,
      \* // baseline-disable-next-line api.ResizeObserver
      <<Tok("linecomment", DIRECTIVE \o fid_ResizeObserver, <<>>)>>,
      \* // baseline-disable-next-line api.ResizeObserverEntry
      <<Tok("linecomment", DIRECTIVE \o s_api_dot \o s_ResizeObserverEntry, <<>>)>>,
      <<Tok("blockopen", <<"{">>, <<>>)>>,
      <<Tok("blockclose", <<"}">>, <<>>)>>,
      \* const ResizeObserver = 1;
      <<Tok("code", <<"c","o","n","s","t"," ">>, <<>>), Tok("bind", s_ResizeObserver, <<>>), Tok("code", <<" ","="," ","1",";">>, <<>>)>>,
      \* let = ;
      <<Tok("bad", <<"l","e","t"," ","="," ",";">>, <<>>)>> }

InitJs == InitWith("javascript", Documents(JsLines))
SpecJs == InitJs /\ [][Next]_vars

(***************************************************************************)
(* Markup documents of the session.                                        *)
(***************************************************************************)
InlineTextWrap == <<TokC("attr", s_style, <<Tok("decl", s_text_wrap, s_balance)>>)>>
HtmlLines ==
    { <<TokC("tag", s_style, <<>>)>>,                                   \* <style>
      <<Tok("endtag", s_style, <<>>)>>,                                 \* </style>
      <<Tok("ws", Indent, <<>>), Tok("decl", s_text_wrap, s_balance)>>, \*   text-wrap: balance;
      \* <b style="text-wrap: balance;"><i style="text-wrap: balance;">x</i></b>
      <<TokC("tag", s_b, InlineTextWrap), TokC("tag", s_i, InlineTextWrap), Tok("chars", s_x, <<>>),
        Tok("endtag", s_i, <<>>), Tok("endtag", s_b, <<>>)>>,
      \* <p style="text-wrap: balance;">x</p>
      <<TokC("tag", s_p, InlineTextWrap), Tok("chars", s_x, <<>>), Tok("endtag", s_p, <<>>)>>,
      \* <marquee>x</marquee>
      <<TokC("tag", s_marquee, <<>>), Tok("chars", s_x, <<>>), Tok("endtag", s_marquee, <<>>)>>,
      \* <marquee style="}">x</marquee>
      <<TokC("tag", s_marquee, <<TokC("attr", s_style, <<Tok("close", <<>>, <<>>)>>)>>),
        Tok("chars", s_x, <<>>), Tok("endtag", s_marquee, <<>>)>>,
      \* <input type="date">
      <<TokC("tag", s_input, <<Tok("attr", s_type, s_date)>>)>>,
      <<TokC("tag", s_script, <<>>)>>,                                  \* <script>
      <<Tok("endtag", s_script, <<>>)>>,                                \* </script>
      \* new ResizeObserver(cb);
      <<Tok("code", <<"n","e","w"," ">>, <<>>), Tok("ident", s_ResizeObserver, <<>>), Tok("code", <<"(","c","b",")",";">>, <<>>)>> }

InitHtml == InitWith("html", Documents(HtmlLines))
SpecHtml == InitHtml /\ [][Next]_vars

(***************************************************************************)
(* Batch fixing in the session: the 'Fix all' code action and the          *)
(* baseline.fixAllInFile command.                                          *)
(***************************************************************************)
\* the diagnostics updateDiagnostics has set for the document
diagnosticsOf(list) == [n \in 1..Len(list) |-> findingToDiagnostic(list[n])]

\* a diagnostic of another provider on line n, which the editor hands to
\* provideCodeActions with the others; its code names no Remediation
FOREIGN_CODE == <<"n","o","-","u","n","d","e","f">>
foreignDiagnostic(n) ==
    [range |-> Range(EditorPosition(n, 0), EditorPosition(n, 1)), code |-> FOREIGN_CODE]

\* context.diagnostics of a request for the lines from..to
contextOf(diagnostics, from, to, foreign) ==
    (IF foreign THEN <<foreignDiagnostic(from)>> ELSE <<>>)
    \o SelectSeq(diagnostics, LAMBDA d : d.range.start.line \in from..to)

\* the editor asks provideCodeActions for the actions on lines from..to, and the user
\* picks 'Fix all' when it is among them
requested(from, to, foreign) == contextOf(diagnosticsOf(findings), from, to, foreign)
codeActions(from, to, foreign) ==
    provideCodeActions(doc, languageId, requested(from, to, foreign))
fixAllApplied(from, to, foreign) ==
    applyWorkspaceEdit(doc, editsOf(codeActions(from, to, foreign).visited))

FixAll(from, to, foreign) ==
    /\ phase = "scanned"
    /\ nFixes < MaxFixes
    /\ \A i \in 1..Len(requested(from, to, foreign)) :
         providesCodeActions(doc, requested(from, to, foreign)[i])
    /\ batch' = [by |-> "provideCodeActions",
                 context |-> requested(from, to, foreign),
                 built |-> codeActions(from, to, foreign).offered,
                 visited |-> codeActions(from, to, foreign).visited,
                 before |-> doc,
                 success |-> /\ codeActions(from, to, foreign).offered
                             /\ fixAllApplied(from, to, foreign).success]
    /\ doc' = IF codeActions(from, to, foreign).offered
              THEN fixAllApplied(from, to, foreign).text ELSE doc
    /\ phase' = IF doc' # doc THEN "dirty" ELSE phase
    /\ nFixes' = nFixes + 1
    /\ UNCHANGED <<languageId, findings, raised, applied, call, oracle, cli, workspace, autoSync>>

\* the baseline.fixAllInFile command on the open document; a document.lineAt that throws
\* ends the command before any edit is applied; after a successful edit the command
\* scans the new text itself (a text a replacement has rewritten is left to be scanned)
fixAllInFile ==
    /\ phase = "scanned"
    /\ nFixes < MaxFixes
    /\ LET diagnostics == diagnosticsOf(findings)
           throws == \E i \in 1..Len(diagnostics) : ~providesCodeActions(doc, diagnostics[i])
           visited == fixAllInFileLoop(doc, languageId, diagnostics, 1)
           w == applyWorkspaceEdit(doc, editsOf(visited))
           r == scanCode(w.text, languageId)
       IN IF diagnostics = <<>> \/ throws
          THEN /\ batch' = [by |-> "fixAllInFile", context |-> diagnostics, built |-> FALSE,
                            visited |-> <<>>, before |-> doc, success |-> FALSE]
               /\ UNCHANGED <<doc, phase, findings, raised>>
          ELSE /\ batch' = [by |-> "fixAllInFile", context |-> diagnostics, built |-> TRUE,
                            visited |-> visited, before |-> doc, success |-> w.success]
               /\ doc' = w.text
               /\ IF w.success /\ Tokenised(w.text)
                  THEN /\ phase' = IF r.rejected THEN "rejected" ELSE "scanned"
                       /\ findings' = IF r.rejected THEN findings ELSE r.findings
                       /\ raised' = r.raised
                  ELSE /\ phase' = IF w.text # doc THEN "dirty" ELSE phase
                       /\ UNCHANGED <<findings, raised>>
    /\ nFixes' = nFixes + 1
    /\ UNCHANGED <<languageId, applied, call, oracle, cli, workspace, autoSync>>

NextBatch ==
    \/ Next
    \/ \E from, to \in 0..(Len(doc) - 1) : \E foreign \in BOOLEAN :
         from <= to /\ FixAll(from, to, foreign)
    \/ fixAllInFile

\* documents on which several Findings meet
BatchCssLines ==
    { \*   text-wrap: balance; accent-color: red;
      <<Tok("ws", Indent, <<>>), Tok("decl", s_text_wrap, s_balance), Blank,
        Tok("decl", s_accent_color, s_red)>>,
      <<Tok("ws", Indent, <<>>), Tok("decl", s_text_wrap, s_balance)>>,
      <<Tok("ws", Indent, <<>>), Tok("decl", s_backdrop_filter, s_blur)>>,
      \*   color-adjust: exact;
      <<Tok("ws", Indent, <<>>), Tok("decl", s_color_adjust, s_exact)>>,
      \*   accent-color: color-mix(in srgb, red, blue);
      <<Tok("ws", Indent, <<>>), Tok("decl", s_accent_color, s_color_mix_value)>> }

BatchJsLines ==
    { \* new ResizeObserver(cb);
      <<Tok("code", <<"n","e","w"," ">>, <<>>), Tok("ident", s_ResizeObserver, <<>>), Tok("code", <<"(","c","b",")",";">>, <<>>)>>,
      \* if (e.keyCode === 27) {}
      <<Tok("code", <<"i","f"," ","(","e",".">>, <<>>), Tok("prop", s_keyCode, <<>>), Tok("code", s_eq27, <<>>)>>,
      \* ResizeObserver; ResizeObserver;
      <<Tok("ident", s_ResizeObserver, <<>>), Tok("code", <<";"," ">>, <<>>),
        Tok("ident", s_ResizeObserver, <<>>), Tok("code", <<";">>, <<>>)>> }

BatchHtmlLines ==
    { \* <marquee>x</marquee>
      <<TokC("tag", s_marquee, <<>>), Tok("chars", s_x, <<>>), Tok("endtag", s_marquee, <<>>)>>,
      \* <input type="date">
      <<TokC("tag", s_input, <<Tok("attr", s_type, s_date)>>)>>,
      \* <p style="text-wrap: balance;">x</p>
      <<TokC("tag", s_p, InlineTextWrap), Tok("chars", s_x, <<>>), Tok("endtag", s_p, <<>>)>> }

BatchDocuments(lines) == UNION {[1..n -> lines] : n \in 1..MaxBatchLines}

InitBatch ==
    \/ InitWith("css", BatchDocuments(BatchCssLines))
    \/ InitWith("javascript", BatchDocuments(BatchJsLines))
    \/ InitWith("html", BatchDocuments(BatchHtmlLines))

SpecBatch == InitBatch /\ [][NextBatch]_vars

(***************************************************************************)
(* Terms the properties are stated in.                                     *)
(***************************************************************************)
\* the text of each line of a document
DocText(text) == [n \in 1..Len(text) |-> RawLine(text[n])]

\* the nodes of the scanned style sheet
Nodes == postcssParse(doc).nodes

\* the Findings of the latest scan with this feature identifier at this position
FindingsAt(featureId, line, column) ==
    {n \in 1..Len(findings) : /\ findings[n].featureId = featureId
                              /\ findings[n].line = line
                              /\ findings[n].column = column}

\* the Findings of the latest scan at this position, whatever their feature
AllFindingsAt(line, column) ==
    {n \in 1..Len(findings) : findings[n].line = line /\ findings[n].column = column}

ScannedCss == languageId = "css" /\ phase = "scanned"

\* the feature identifier a comment's directive names: the characters after the marker
\* up to the next whitespace or the end (<<>>: the comment holds no directive)
RECURSIVE tokenEnd(_, _)
tokenEnd(text, i) ==
    IF i <= Len(text) /\ text[i] \notin WHITESPACE THEN tokenEnd(text, i + 1) ELSE i

NamedFeature(text) ==
    IF ~includes(text, DIRECTIVE) THEN <<>>
    ELSE LET at == CHOOSE i \in 0..(Len(text) - Len(DIRECTIVE)) :
                      /\ SubSeq(text, i + 1, i + Len(DIRECTIVE)) = DIRECTIVE
                      /\ \A j \in 0..(i - 1) : SubSeq(text, j + 1, j + Len(DIRECTIVE)) # DIRECTIVE
             from == at + Len(DIRECTIVE) + 1
         IN SubSeq(text, from, tokenEnd(text, from) - 1)

\* the nearest sibling before node i that is no comment (0: none)
NearestNonComment(nodes, i) ==
    LET before == {j \in 1..(i - 1) : nodes[j].parent = nodes[i].parent /\ nodes[j].type # "comment"}
    IN IF before = {} THEN 0 ELSE CHOOSE j \in before : \A m \in before : m <= j

\* declaration i follows a background-color declaration, comments between them aside
HasFallback(nodes, i) ==
    LET p == NearestNonComment(nodes, i)
    IN p # 0 /\ nodes[p].type = "decl" /\ nodes[p].prop = s_background_color

\* the sibling right before node i is a comment holding the directive text for featureId
DirectiveTextBefore(nodes, i, featureId) ==
    \E j \in 1..(i - 1) :
        /\ nodes[j].parent = nodes[i].parent
        /\ \A m \in (j + 1)..(i - 1) : nodes[m].parent # nodes[i].parent
        /\ nodes[j].type = "comment"
        /\ includes(nodes[j].text, DIRECTIVE \o featureId)

\* the sibling right before node i is a comment whose directive names another feature
OtherDirectiveBefore(nodes, i, featureId) ==
    \E j \in 1..(i - 1) :
        /\ nodes[j].parent = nodes[i].parent
        /\ \A m \in (j + 1)..(i - 1) : nodes[m].parent # nodes[i].parent
        /\ nodes[j].type = "comment"
        /\ NamedFeature(nodes[j].text) \notin {<<>>, featureId}

(***************************************************************************)
(* C1  Suppression is exact-token: a directive naming a feature G never    *)
(* suppresses the Finding of a different feature F, also when F is a       *)
(* proper prefix of G.  Stated for scanCss: a catalogued declaration right *)
(* after a directive for another feature still has its Finding.            *)
(***************************************************************************)
C1_ExactTokenSuppression ==
    ScannedCss =>
      \A i \in 1..Len(Nodes) :
        LET F == CSS_PROPERTIES \o Nodes[i].prop IN
        (/\ Nodes[i].type = "decl"
         /\ InDatabase(F)
         /\ OtherDirectiveBefore(Nodes, i, F)
         /\ ~(Nodes[i].prop = s_backdrop_filter /\ HasFallback(Nodes, i)))
        => FindingsAt(F, Nodes[i].source.start.line, Nodes[i].source.start.column) # {}

(***************************************************************************)
(* C3  scanCss never throws or rejects, whatever the text: the scan of a   *)
(* style document always returns a list.                                   *)
(***************************************************************************)
C3_ScanCssNeverRejects == languageId = "css" => phase # "rejected"

(***************************************************************************)
(* C5  A backdrop-filter declaration whose nearest preceding sibling,      *)
(* comments skipped, is a background-color declaration has no Finding;     *)
(* with any other nearest predecessor, or none, and no directive for it in *)
(* the comment right before it, it has exactly one.                        *)
(***************************************************************************)
C5_BackdropFilterFallback ==
    ScannedCss =>
      \A i \in 1..Len(Nodes) :
        (Nodes[i].type = "decl" /\ Nodes[i].prop = s_backdrop_filter) =>
          LET at == FindingsAt(fid_backdrop_filter, Nodes[i].source.start.line,
                               Nodes[i].source.start.column)
          IN /\ HasFallback(Nodes, i) => at = {}
             /\ (~HasFallback(Nodes, i) /\ ~DirectiveTextBefore(Nodes, i, fid_backdrop_filter))
                  => Cardinality(at) = 1

\* a scanned sheet where a comment stands between background-color and backdrop-filter
C5_Witness ==
    /\ ScannedCss
    /\ \E i \in 1..Len(Nodes) :
         /\ Nodes[i].type = "decl" /\ Nodes[i].prop = s_backdrop_filter
         /\ HasFallback(Nodes, i)
         /\ NearestNonComment(Nodes, i) < i - 1
         /\ Nodes[i - 1].type = "comment"

(***************************************************************************)
(* C6  (as claimed) A declaration whose property is catalogued, with no    *)
(* directive and no fallback, has exactly one Finding at its location,     *)
(* whatever its value.                                                     *)
(***************************************************************************)
Uncovered(nodes, i) ==
    /\ nodes[i].type = "decl"
    /\ InDatabase(CSS_PROPERTIES \o nodes[i].prop)
    /\ ~DirectiveTextBefore(nodes, i, CSS_PROPERTIES \o nodes[i].prop)
    /\ ~(nodes[i].prop = s_backdrop_filter /\ HasFallback(nodes, i))

ScenarioA == <<<<".","a"," ","{"," ","t","e","x","t","-","w","r","a","p",":"," ","b","a","l","a","n","c","e",";"," ","}">>>>

PreferredFixType(fixId) ==
    IF getRemediation(fixId) = <<>> THEN "none" ELSE getRemediation(fixId)[1].type

ScenarioAFixed ==
    /\ languageId = "css"
    /\ applied # NoFix
    /\ DocText(applied.before) = ScenarioA

C9_ScenarioALeavesRule ==
    ScenarioAFixed =>
      /\ Len(applied.foundBefore) = 1
      /\ applied.finding.featureId = fid_text_wrap
      /\ PreferredFixType(applied.finding.fixId) = "remove-css-declaration"
      /\ DocText(doc) = <<<<".","a"," ","{"," "," ","}">>>>

(***************************************************************************)
(* C9  (amended) Scanning `.a { text-wrap: balance; }` yields exactly one  *)
(* Finding (text-wrap, remove-css-declaration), and applying that fix      *)
(* deletes the whole line: it yields the empty text.                       *)
(***************************************************************************)
C9_ScenarioADeletesLine ==
    ScenarioAFixed =>
      /\ Len(applied.foundBefore) = 1
      /\ applied.finding.featureId = fid_text_wrap
      /\ PreferredFixType(applied.finding.fixId) = "remove-css-declaration"
      /\ DocText(doc) = << <<>> >>

\* the fix of scenario A has been applied
C9_Witness == ScenarioAFixed /\ phase = "dirty"

(***************************************************************************)
(* C10  (as claimed) After a remove-css-declaration fix of a Finding, the  *)
(* re-scan of the resulting text has no Finding with that feature          *)
(* identifier at that Finding's (line, column).                            *)
(***************************************************************************)
RescannedAfterRemoval ==
    /\ ScannedCss
    /\ applied # NoFix
    /\ PreferredFixType(applied.finding.fixId) = "remove-css-declaration"

C10_NoFindingAtRemovedPlace ==
    RescannedAfterRemoval =>
      FindingsAt(applied.finding.featureId, applied.finding.line, applied.finding.column) = {}

(***************************************************************************)
(* C10  (amended) After a remove-css-declaration fix of a Finding, the     *)
(* re-scan has a Finding with that feature identifier at that (line,       *)
(* column) only when the line that followed the deleted line holds a       *)
(* declaration of that property at that column, which the deletion has     *)
(* moved up; otherwise it has none.                                        *)
(***************************************************************************)
DeclarationAt(text, n, column, featureId) ==
    /\ n <= Len(text)
    /\ \E j \in 1..Len(text[n]) :
         /\ text[n][j].k = "decl"
         /\ CSS_PROPERTIES \o text[n][j].a = featureId
         /\ Width(text[n], j - 1) + 1 = column

C10_OnlyTheNextLineMovesUp ==
    RescannedAfterRemoval =>
      (FindingsAt(applied.finding.featureId, applied.finding.line, applied.finding.column) # {}
       => DeclarationAt(applied.before, applied.finding.line + 1, applied.finding.column,
                        applied.finding.featureId))

\* a re-scan after a removal that again reports the feature at the same place
C10_Witness ==
    /\ RescannedAfterRemoval
    /\ Len(DocText(doc)) < Len(DocText(applied.before))
    /\ FindingsAt(applied.finding.featureId, applied.finding.line, applied.finding.column) # {}

(***************************************************************************)
(* C4  scanJs never propagates an exception: it always returns a list, and *)
(* whenever parsing or traversing raised, the list it returns is empty.    *)
(***************************************************************************)
Ast == babelParse(doc)
ScannedJs == languageId = "javascript" /\ phase = "scanned"

C4_ScanJsCatchesEverything ==
    languageId = "javascript" =>
      /\ phase # "rejected"
      /\ (phase = "scanned" /\ raised) => findings = <<>>

\* a scanned script that uses a watched API and on which the parser or the crawl raised
C4_Witness ==
    /\ ScannedJs
    /\ raised
    /\ \E n \in 1..Len(doc) : \E j \in 1..Len(doc[n]) :
         doc[n][j].k = "ident" /\ doc[n][j].a = s_ResizeObserver

(***************************************************************************)
(* C7  A reference to a watchlisted global identifier has no Finding when  *)
(* the name is bound in an enclosing scope, and has a Finding at the       *)
(* identifier's location when no enclosing scope binds it and the          *)
(* statement carries no directive for it.                                  *)
(***************************************************************************)
C7_UnboundGlobalIsReported ==
    (ScannedJs /\ ~raised) =>
      \A i \in 1..Len(Ast.nodes) :
        LET node == Ast.nodes[i]
            at == FindingsAt(s_api_dot \o node.name, node.loc.start.line, node.loc.start.column)
        IN (node.kind = "ident" /\ node.name \in IDENTIFIER_WATCHLIST) =>
             /\ hasOwnBindingUpwards(Ast, node.scope, node.name) => at = {}
             /\ (/\ ~hasOwnBindingUpwards(Ast, node.scope, node.name)
                 /\ ~jsDirective(node, s_api_dot \o node.name)) => at # {}

(***************************************************************************)
(* C8  Scanning `if (e.keyCode === 27) {}` yields exactly one Finding      *)
(* (keyCode, preferred fix replace-property old "keyCode" new "key") whose *)
(* span, as an editor range, covers exactly the token keyCode; applying    *)
(* the fix to that range yields `if (e.key === 27) {}`.                    *)
(***************************************************************************)
ScenarioB == <<<<"i","f"," ","(","e",".","k","e","y","C","o","d","e"," ","=","=","="," ","2","7",")"," ","{","}">>>>

CoveredText(text, range) ==
    SubSeq(RawLine(text[range.start.line + 1]), range.start.character + 1, range.end.character)

C8_ScenarioBReplacesKeyCode ==
    (languageId = "javascript" /\ applied # NoFix /\ DocText(applied.before) = ScenarioB) =>
      /\ Len(applied.foundBefore) = 1
      /\ applied.finding.featureId = fid_keyCode
      /\ PreferredFixType(applied.finding.fixId) = "replace-property"
      /\ getRemediation(applied.finding.fixId)[1].payload.new = s_key
      /\ CoveredText(applied.before, findingToDiagnostic(applied.finding).range) = s_keyCode
      /\ DocText(doc) = <<<<"i","f"," ","(","e",".","k","e","y"," ","=","=","="," ","2","7",")"," ","{","}">>>>

(***************************************************************************)
(* Markup claims.                                                          *)
(***************************************************************************)
\* the Findings m < n of a list that agree on (featureId, line, column)
Duplicates(list) ==
    {p \in (1..Len(list)) \X (1..Len(list)) :
        /\ p[1] < p[2]
        /\ list[p[1]].featureId = list[p[2]].featureId
        /\ list[p[1]].line = list[p[2]].line
        /\ list[p[1]].column = list[p[2]].column}

\* C2: the list one scan returns (scanCss, scanJs, or scanHtml with the Findings of
\* embedded style attributes, <style> blocks and <script> blocks) holds no two
\* Findings with the same (featureId, line, column).
C2_FindingsAreUnique == phase = "scanned" => Duplicates(findings) = {}

(***************************************************************************)
(* C11  Every Finding has a 1-based line and a 1-based column, both at     *)
(* least 1, that denote the start of the flagged construct: subtracting 1  *)
(* from each (findingToDiagnostic) gives the editor position where the     *)
(* construct starts.                                                       *)
(***************************************************************************)
\* the kinds of token a Finding flags
FlaggedKinds == {"decl", "open", "atopen", "ident", "prop", "tag"}

\* a flagged construct starts at editor position p of the text
ConstructStartsAt(text, p) ==
    /\ p.line < Len(text)
    /\ \E j \in 1..Len(text[p.line + 1]) :
         /\ text[p.line + 1][j].k \in FlaggedKinds
         /\ Width(text[p.line + 1], j - 1) = p.character

C11_PositionsAreOneBased ==
    phase = "scanned" =>
      \A n \in 1..Len(findings) :
        /\ findings[n].line >= 1
        /\ findings[n].column >= 1
        /\ ConstructStartsAt(doc, findingToDiagnostic(findings[n]).range.start)

(***************************************************************************)
(* Batch claims.                                                           *)
(***************************************************************************)
\* a 'Fix all' batch has been built by provideCodeActions
FixAllBuilt == batch.by = "provideCodeActions" /\ batch.built

\* two edits of one batch conflict: the same range, or ranges that overlap (an
\* insertion point inside a deleted or replaced range is such an overlap)
conflicting(e1, e2) == e1.range = e2.range \/ overlapping(e1, e2)

\* C12: the 'Fix all' batch of a non-markup document is non-conflicting: no two of its
\* edits have identical or overlapping ranges, and no insertion point of one lies
\* inside the range another deletes or replaces.
C12_FixAllIsNonConflicting ==
    FixAllBuilt =>
      \A i, j \in 1..Len(editsOf(batch.visited)) :
        i # j => ~conflicting(editsOf(batch.visited)[i], editsOf(batch.visited)[j])


\* the i-th diagnostic of the batch got exactly one edit, a line insertion
insertsLine(i) ==
    /\ Len(batch.visited[i].edits) = 1
    /\ batch.visited[i].edits[1].kind = "insert"

\* no other edit of the batch starts on the line of the i-th diagnostic's edit or above
firstOfBatch(i) ==
    \A j \in 1..Len(batch.visited) : \A k \in 1..Len(batch.visited[j].edits) :
      j # i => batch.visited[j].edits[k].range.start.line
                 > batch.visited[i].edits[1].range.start.line

\* C13: batch composition is insertion-order-safe: every edit of a 'Fix all' batch is
\* the edit the single quick fix makes for the same diagnostic on the document as it was,
\* and once the batch is applied, an insertion above all the other edits of the batch
\* has put the text a lone fix would have put, on the line a lone fix would have put it.
C13_BatchEditEqualsSingleFix ==
    FixAllBuilt =>
      \A i \in 1..Len(batch.visited) :
        /\ batch.visited[i].edits # <<>> =>
             batch.visited[i].edits
               = createFixAction(batch.before, languageId, batch.visited[i].diagnostic)
        /\ (batch.success /\ insertsLine(i) /\ firstOfBatch(i)) =>
             LET n == batch.visited[i].edits[1].range.start.line + 1
                 together == applyWorkspaceEdit(batch.before, editsOf(batch.visited)).text
                 alone == applyWorkspaceEdit(batch.before, batch.visited[i].edits).text
             IN SubSeq(together, 1, n) = SubSeq(alone, 1, n)

\* C13 witness: an applied batch with line insertions on two lines
C13_TwoInsertionsApplied ==
    /\ FixAllBuilt
    /\ batch.success
    /\ \E i, j \in 1..Len(batch.visited) :
         /\ insertsLine(i) /\ insertsLine(j) /\ firstOfBatch(i)
         /\ batch.visited[j].edits[1].range.start.line
              > batch.visited[i].edits[1].range.start.line


C14_NoBatchForMarkup ==
    languageId = "html" => ~(batch.by # "none" /\ batch.built)


\* the edits of the batch for the diagnostic of another provider, whose code names no
\* Remediation
foreignVisits == {i \in 1..Len(batch.visited) : batch.visited[i].diagnostic.code = FOREIGN_CODE}

\* C15: a diagnostic whose fixId has no Remediation gets no edit, neither from its own
\* quick fix nor in a batch (of the code action or of the command), and the batch still
\* visits every other diagnostic of the request and composes the edits it composes for
\* them without it.
C15_NoRemediationNoEdit ==
    (batch.by # "none" /\ batch.built) =>
      /\ \A i \in 1..Len(batch.visited) :
           ~InDatabase(batch.visited[i].diagnostic.code) =>
             /\ batch.visited[i].edits = <<>>
             /\ createFixAction(batch.before, languageId, batch.visited[i].diagnostic) = <<>>
             /\ providesCodeActions(batch.before, batch.visited[i].diagnostic)
      /\ Len(batch.visited) = Len(batch.context)
      /\ batch.by = "provideCodeActions" =>
           editsOf(batch.visited)
             = editsOf(fixAllLoop(batch.before, languageId,
                          sortDiagnostics(SelectSeq(batch.context,
                                                    LAMBDA d : InDatabase(d.code)))))

\* C15 witness: a batch built for a request with a diagnostic that has no Remediation,
\* handed over first, and two diagnostics that have one and get their edits
C15_BatchWithForeignDiagnostic ==
    /\ FixAllBuilt
    /\ batch.context[1].code = FOREIGN_CODE
    /\ foreignVisits # {}
    /\ Cardinality({i \in 1..Len(batch.visited) : batch.visited[i].edits # <<>>}) >= 2


(***************************************************************************)
(* Markup claims.                                                          *)
(***************************************************************************)
\* the elements of the document whose style attribute, <style> body or <script> body
\* scanHtml hands to scanCss or scanJs, in call order
delegated(text) == traverseHtmlNode(text, 1, 1, <<>>, [list |-> <<>>, deferred |-> <<>>])

\* the Findings scanHtml reports from embedded fragments, each with the starting line of
\* the element that contains the fragment
RECURSIVE embeddedFindings(_)
embeddedFindings(deferred) ==
    IF deferred = <<>> THEN <<>>
    ELSE LET reported == checkFragment(Head(deferred), <<>>) IN
         [n \in 1..Len(reported) |->
            [finding |-> reported[n], startLine |-> Head(deferred).baseLine]]
         \o embeddedFindings(Tail(deferred))

\* C17: every Finding scanHtml reports from an inline style attribute, a <style> block
\* or a <script> block has a line that is at least the starting line of the element
\* that contains it.
C17_EmbeddedLineNotAboveElement ==
    (languageId = "html" /\ phase = "scanned") =>
      LET embedded == embeddedFindings(delegated(doc).deferred) IN
      /\ findings = delegated(doc).list \o [n \in 1..Len(embedded) |-> embedded[n].finding]
      /\ \A n \in 1..Len(embedded) : embedded[n].finding.line >= embedded[n].startLine

\* C17 witness: a scanned document with a Finding from a fragment of an element that
\* starts below line 1, and one from a fragment of several lines
C17_EmbeddedFindingBelowLineOne ==
    /\ languageId = "html" /\ phase = "scanned"
    /\ \E n \in 1..Len(embeddedFindings(delegated(doc).deferred)) :
         embeddedFindings(delegated(doc).deferred)[n].startLine > 1
    /\ \E d \in 1..Len(delegated(doc).deferred) :
         /\ Len(delegated(doc).deferred[d].content) > 1
         /\ checkFragment(delegated(doc).deferred[d], <<>>) # <<>>


(***************************************************************************)
(* One call of scanHtml, microtask by microtask.  scanHtml and the scans   *)
(* of fragments have no await of their own, so each returns a settled      *)
(* promise; checkInlineStyle, checkInlineScript and checkStyleBlock await  *)
(* such a promise, which queues their continuation (the loop that shifts   *)
(* and pushes the Findings) as a microtask.  The caller awaits scanHtml's  *)
(* promise, or that of scanCode, which returns scanHtml's promise: an       *)
(* async function that returns a promise settles two microtasks after it.  *)
(***************************************************************************)
\* mutant: a queued continuation runs before the ones queued earlier
enqueueFirst(queue, job) == <<job>> \o queue

\* await of a settled promise: the continuation joins the microtask queue at its end
enqueue(queue, job) == queue \o <<job>>

\* the continuations of the fragment scans, queued during the traversal in call order
RECURSIVE enqueueFragments(_, _)
enqueueFragments(queue, deferred) ==
    IF deferred = <<>> THEN queue
    ELSE enqueueFragments(enqueue(queue, [kind |-> "fragment", d |-> Head(deferred)]),
                          Tail(deferred))

CallerJob == [kind |-> "caller", d |-> <<>>]

\* the caller's synchronous run up to its await: scanHtml traverses the tree, starts the
\* fragment scans and returns the list, which fulfils its promise
scanHtmlReturns ==
    /\ call.pc = "ready"
    /\ LET acc == delegated(call.text)
           started == enqueueFragments(<<>>, acc.deferred)
       IN call' = [call EXCEPT
                     !.pc = "awaiting",
                     !.list = acc.list,
                     !.settled = TRUE,
                     !.queue = IF call.via = "scanCode"
                               THEN enqueue(started, [kind |-> "resolveThenable", d |-> <<>>])
                               ELSE enqueue(started, CallerJob)]
    /\ UNCHANGED <<session, oracle, cli, workspace, autoSync>>

\* the event loop runs the first microtask of the queue
runMicrotask ==
    /\ call.pc = "awaiting"
    /\ call.queue # <<>>
    /\ LET job == Head(call.queue)
           rest == Tail(call.queue)
       IN call' =
            CASE job.kind = "fragment" ->
                   [call EXCEPT !.list = checkFragment(job.d, call.list), !.queue = rest,
                                !.unhandled = @ \/ checkFragmentSettles(job.d) = "rejected"]
              [] job.kind = "resolveThenable" ->
                   [call EXCEPT !.queue = enqueue(rest, [kind |-> "adopt", d |-> <<>>])]
              [] job.kind = "adopt" ->
                   [call EXCEPT !.queue = enqueue(rest, CallerJob)]
              [] OTHER ->
                   [call EXCEPT !.received = TRUE, !.got = call.list, !.queue = rest]
    /\ UNCHANGED <<session, oracle, cli, workspace, autoSync>>

NextCall == scanHtmlReturns \/ runMicrotask

InitCall ==
    /\ NoSession
    /\ oracle = NoOracle
    /\ cli = NoRun
    /\ workspace = NoWorkspace
    /\ autoSync = NoSync
    /\ \E text \in Documents(HtmlLines) : \E via \in {"scanHtml", "scanCode"} :
         call = [pc |-> "ready", text |-> text, via |-> via, list |-> <<>>,
                 settled |-> FALSE, queue |-> <<>>, received |-> FALSE, got |-> <<>>,
                 unhandled |-> FALSE]

SpecCall == InitCall /\ [][NextCall]_vars

\* every Finding of the document: those of elements and attributes, then those of the
\* delegated fragments
allFindings(text) ==
    delegated(text).list
    \o [n \in 1..Len(embeddedFindings(delegated(text).deferred)) |->
          embeddedFindings(delegated(text).deferred)[n].finding]

\* C19: scanHtml provides no partial results: at the moment its promise resolves the list
\* already holds every Finding of the delegated fragments, and the list is not modified
\* after the caller has received it.
C19_NoPartialResults ==
    /\ (call.pc # "none" /\ call.settled) => call.list = allFindings(call.text)
    /\ (call.pc # "none" /\ call.received) => call.list = call.got

\* C19 as the code has it: when the caller's continuation runs, the list it gets holds
\* every Finding of the document, those of the delegated fragments included, and the
\* list is not modified afterwards; the promise itself is fulfilled before that, while
\* the continuations of the fragment scans are still queued.
C19_CompleteWhenReceived ==
    (call.pc # "none" /\ call.received) =>
      /\ call.got = allFindings(call.text)
      /\ call.list = call.got
      /\ call.queue = <<>>

\* C19 witness: the caller has received a list with the Findings of two fragments
C19_ReceivedWithFragments ==
    /\ call.pc # "none" /\ call.received
    /\ Len(delegated(call.text).deferred) >= 2
    /\ Len(call.got) >= Len(delegated(call.text).list) + 2


(***************************************************************************)
(* The Baseline oracle (baseline-engine.ts, 1-113).  The datasets are      *)
(* those of the packages web-features (features) and compute-baseline      *)
(* (getStatus): features is a list of features in the object's key order,  *)
(* each with the BCD keys and the CSS properties it names; status gives,   *)
(* for a BCD key, what getStatus does with it: it throws, or returns       *)
(* undefined, a status without a baseline field, or one whose baseline is  *)
(* false, 'low' or 'high'.                                                 *)
(***************************************************************************)
NULL == <<"null">>
key_keyCode == <<"a","p","i",".","K","e","y","b","o","a","r","d","E","v","e","n","t",".","k","e","y","C","o","d","e">>
key_text_wrap_balance == <<"c","s","s",".","p","r","o","p","e","r","t","i","e","s",".","t","e","x","t","-","w","r","a","p",".","b","a","l","a","n","c","e">>
s_zoom == <<"z","o","o","m">>
BCD_KEYS == {key_keyCode, fid_text_wrap, key_text_wrap_balance}
STATUSES == {"throws", "undefined", "no-baseline", "false", "low", "high"}
JS_NAMES == {s_keyCode, s_zoom}
CSS_NAMES == {s_text_wrap, s_zoom}

f_text_wrap ==
    [id |-> s_text_wrap, compat_features |-> <<fid_text_wrap, key_text_wrap_balance>>,
     properties |-> <<s_text_wrap>>]
f_keyboard_events ==
    [id |-> <<"k","e","y","b","o","a","r","d","-","e","v","e","n","t","s">>, compat_features |-> <<key_keyCode>>, properties |-> <<>>]
\* a feature without compat_features
f_text_wrap_style ==
    [id |-> <<"t","e","x","t","-","w","r","a","p","-","s","t","y","l","e">>, compat_features |-> <<>>, properties |-> <<s_text_wrap>>]
FEATURES ==
    { <<>>, <<f_text_wrap, f_keyboard_events>>, <<f_text_wrap_style, f_text_wrap>>,
      <<f_keyboard_events>> }

\* String.prototype.endsWith
endsWith(text, pat) ==
    Len(pat) <= Len(text) /\ SubSeq(text, Len(text) - Len(pat) + 1, Len(text)) = pat

getStatus(status, bcdKey) == status[bcdKey]

Answer(value) == [threw |-> FALSE, value |-> value]
Thrown == [threw |-> TRUE, value |-> FALSE]

\* mutant: the lookup is not guarded
isFeatureBaselineUncaught(status, bcdKey) ==
    IF bcdKey = NULL \/ bcdKey = <<>> THEN Answer(TRUE)
    ELSE LET st == getStatus(status, bcdKey) IN
         IF st = "throws" THEN Thrown
         ELSE IF st \in {"undefined", "no-baseline"} THEN Answer(TRUE)
         ELSE Answer(st \in {"low", "high"})

isFeatureBaseline(status, bcdKey) ==
    IF bcdKey = NULL \/ bcdKey = <<>> THEN Answer(TRUE)
    ELSE LET st == getStatus(status, bcdKey) IN
         IF st = "throws" THEN Answer(TRUE)
         ELSE IF st \in {"undefined", "no-baseline"} THEN Answer(TRUE)
         ELSE Answer(st \in {"low", "high"})

\* the BCD keys of all features, in the order the loops meet them
RECURSIVE compatFeatures(_)
compatFeatures(features) ==
    IF features = <<>> THEN <<>>
    ELSE Head(features).compat_features \o compatFeatures(Tail(features))

\* findBcdKeyForJsProperty: the key found and the cache after the call
findBcdKeyForJsProperty(features, bcdKeyCache, propertyName) ==
    IF propertyName \in DOMAIN bcdKeyCache
    THEN [key |-> bcdKeyCache[propertyName], cache |-> bcdKeyCache]
    ELSE LET found == SelectSeq(compatFeatures(features),
                                LAMBDA bcdKey : endsWith(bcdKey, <<".">> \o propertyName))
             key == IF found # <<>> THEN found[1] ELSE NULL
         IN [key |-> key, cache |-> (propertyName :> key) @@ bcdKeyCache]

\* findFeatureIdForCssProperty: the feature id found and the cache after the call
findFeatureIdForCssProperty(features, cache, propertyName) ==
    IF propertyName \in DOMAIN cache
    THEN [featureId |-> cache[propertyName], cache |-> cache]
    ELSE LET found == SelectSeq(features,
                        LAMBDA feature : \E i \in 1..Len(feature.properties) :
                                           feature.properties[i] = propertyName)
             featureId == IF found # <<>> THEN found[1].id ELSE NULL
         IN [featureId |-> featureId, cache |-> (propertyName :> featureId) @@ cache]

isJsPropertyBaseline(features, status, bcdKeyCache, propertyName) ==
    isFeatureBaseline(status, findBcdKeyForJsProperty(features, bcdKeyCache, propertyName).key)

\* the loop of isCssPropertyBaseline over the feature's BCD keys from the i-th on
RECURSIVE allBaselineFrom(_, _, _)
allBaselineFrom(status, keys, i) ==
    IF i > Len(keys) THEN Answer(TRUE)
    ELSE LET r == isFeatureBaseline(status, keys[i]) IN
         IF r.threw THEN Thrown
         ELSE IF ~r.value THEN Answer(FALSE)
         ELSE allBaselineFrom(status, keys, i + 1)

isCssPropertyBaseline(features, status, cache, propertyName) ==
    LET featureId == findFeatureIdForCssProperty(features, cache, propertyName).featureId IN
    IF featureId = NULL THEN [threw |-> FALSE, value |-> TRUE, featureId |-> NULL]
    ELSE LET feature == features[CHOOSE i \in 1..Len(features) : features[i].id = featureId]
             r == allBaselineFrom(status, feature.compat_features, 1)
         IN [threw |-> r.threw, value |-> r.value, featureId |-> featureId]

(***************************************************************************)
(* Calls of the oracle.                                                    *)
(***************************************************************************)
NoAnswer == [fn |-> "none"]

callIsFeatureBaseline(bcdKey) ==
    /\ oracle.pc = "ready"
    /\ LET r == isFeatureBaseline(oracle.status, bcdKey) IN
       oracle' = [oracle EXCEPT
                    !.answer = [fn |-> "isFeatureBaseline", arg |-> bcdKey, threw |-> r.threw,
                                value |-> r.value, featureId |-> NULL]]
    /\ UNCHANGED <<session, call, cli, workspace, autoSync>>

callIsJsPropertyBaseline(propertyName) ==
    /\ oracle.pc = "ready"
    /\ LET r == isJsPropertyBaseline(oracle.features, oracle.status, oracle.bcdKeyCache,
                                     propertyName)
       IN oracle' = [oracle EXCEPT
                       !.bcdKeyCache = findBcdKeyForJsProperty(oracle.features, @, propertyName).cache,
                       !.answer = [fn |-> "isJsPropertyBaseline", arg |-> propertyName,
                                   threw |-> r.threw, value |-> r.value, featureId |-> NULL]]
    /\ UNCHANGED <<session, call, cli, workspace, autoSync>>

callIsCssPropertyBaseline(propertyName) ==
    /\ oracle.pc = "ready"
    /\ LET r == isCssPropertyBaseline(oracle.features, oracle.status,
                                      oracle.cssPropertyToFeatureIdCache, propertyName)
       IN oracle' = [oracle EXCEPT
                       !.cssPropertyToFeatureIdCache =
                          findFeatureIdForCssProperty(oracle.features, @, propertyName).cache,
                       !.answer = [fn |-> "isCssPropertyBaseline", arg |-> propertyName,
                                   threw |-> r.threw, value |-> r.value,
                                   featureId |-> r.featureId]]
    /\ UNCHANGED <<session, call, cli, workspace, autoSync>>

NextOracle ==
    \/ \E bcdKey \in BCD_KEYS \cup {NULL, <<>>} : callIsFeatureBaseline(bcdKey)
    \/ \E propertyName \in JS_NAMES : callIsJsPropertyBaseline(propertyName)
    \/ \E propertyName \in CSS_NAMES : callIsCssPropertyBaseline(propertyName)

InitOracle ==
    /\ NoSession
    /\ call = NoCall
    /\ cli = NoRun
    /\ workspace = NoWorkspace
    /\ autoSync = NoSync
    /\ \E features \in FEATURES : \E status \in [BCD_KEYS -> STATUSES] :
         oracle = [pc |-> "ready", features |-> features, status |-> status,
                   bcdKeyCache |-> <<>>, cssPropertyToFeatureIdCache |-> <<>>,
                   answer |-> NoAnswer]

SpecOracle == InitOracle /\ [][NextOracle]_vars

(***************************************************************************)
(* Oracle claims.                                                          *)
(***************************************************************************)
\* getStatus gives no classification for the key
unknownStatus(bcdKey) == oracle.status[bcdKey] \in {"throws", "undefined", "no-baseline"}

\* the BCD keys of the dataset a JS property name can resolve to
keysEndingWith(propertyName) ==
    {k \in BCD_KEYS :
       /\ \E i \in 1..Len(oracle.features) : \E j \in 1..Len(oracle.features[i].compat_features) :
            oracle.features[i].compat_features[j] = k
       /\ endsWith(k, <<".">> \o propertyName)}

\* the features of the dataset that name a CSS property
featuresNaming(propertyName) ==
    {i \in 1..Len(oracle.features) :
       \E j \in 1..Len(oracle.features[i].properties) :
         oracle.features[i].properties[j] = propertyName}

\* the question of the last call could not be resolved to a classification
unresolved ==
    CASE oracle.answer.fn = "isFeatureBaseline" ->
           oracle.answer.arg \in {NULL, <<>>} \/ unknownStatus(oracle.answer.arg)
      [] oracle.answer.fn = "isJsPropertyBaseline" ->
           \A k \in keysEndingWith(oracle.answer.arg) : unknownStatus(k)
      [] oracle.answer.fn = "isCssPropertyBaseline" ->
           \A i \in featuresNaming(oracle.answer.arg) :
             \A j \in 1..Len(oracle.features[i].compat_features) :
               unknownStatus(oracle.features[i].compat_features[j])

EXTENSIONS == {".css", ".js", ".ts", ".tsx", ".jsx"}

findFiles(entries) == SelectSeq(entries, LAMBDA item : item.ext \in EXTENSIONS)

getLanguageFromPath(ext) ==
    IF ext = ".css" THEN "css"
    ELSE IF ext \in {".ts", ".tsx"} THEN "typescript"
    ELSE IF ext \in {".js", ".jsx"} THEN "javascript"
    ELSE "null"

\* the files of the pool: what each holds
FILES ==
    { \*   text-wrap: balance;
      [ext |-> ".css", content |-> <<<<Tok("ws", Indent, <<>>), Tok("decl", s_text_wrap, s_balance)>>>>],
      \*   text-wrap: balance; accent-color: red;
      [ext |-> ".css", content |-> <<<<Tok("ws", Indent, <<>>), Tok("decl", s_text_wrap, s_balance),
                                       Blank, Tok("decl", s_accent_color, s_red)>>>>],
      \* .a {           (never closed: postcss throws)
      [ext |-> ".css", content |-> <<<<Tok("open", s_dot_a, <<>>)>>>>],
      \* .a { } on two lines
      [ext |-> ".css", content |-> <<<<Tok("open", s_dot_a, <<>>)>>, <<Tok("close", <<>>, <<>>)>>>>],
      \* new ResizeObserver(cb);
      [ext |-> ".js", content |-> <<<<Tok("code", <<"n","e","w"," ">>, <<>>), Tok("ident", s_ResizeObserver, <<>>),
                                      Tok("code", <<"(","c","b",")",";">>, <<>>)>>>>],
      \* if (e.keyCode === 27) {}
      [ext |-> ".ts", content |-> <<<<Tok("code", <<"i","f"," ","(","e",".">>, <<>>), Tok("prop", s_keyCode, <<>>),
                                      Tok("code", s_eq27, <<>>)>>>>],
      \* let = ;
      [ext |-> ".jsx", content |-> <<<<Tok("bad", <<"l","e","t"," ","="," ",";">>, <<>>)>>>>],
      \* <marquee>x</marquee>
      [ext |-> ".html", content |-> <<<<TokC("tag", s_marquee, <<>>), Tok("chars", s_x, <<>>),
                                        Tok("endtag", s_marquee, <<>>)>>>>] }

FORMATS == {"console", "json", "github", "sarif"}

\* mutant: the console report always answers 0
formatConsoleReportPassing(results) == 0

\* formatConsoleReport: its return value
formatConsoleReport(results) == IF results.totalIssues = 0 THEN 0 ELSE 1

\* main up to the first await of scanDirectory: a missing target ends the run with
\* code 1, and so does a directory that cannot be read (readdirSync throws and main's
\* catch exits); a file target is scanned whatever its extension, a directory's entries
\* are filtered by findFiles
main ==
    /\ cli.pc = "start"
    /\ cli' = IF cli.target \in {"missing", "unreadable"}
              THEN [cli EXCEPT !.pc = "exited", !.exitCode = 1]
              ELSE [cli EXCEPT !.pc = "scanning",
                               !.files = IF cli.target = "file" THEN cli.entries
                                         ELSE findFiles(cli.entries)]
    /\ UNCHANGED <<session, call, oracle, workspace, autoSync>>

\* one turn of scanDirectory's loop: the file is skipped when it has no language; an
\* error of the scan is caught and the file is not counted
scanDirectory ==
    /\ cli.pc = "scanning"
    /\ cli.next <= Len(cli.files)
    /\ LET file == cli.files[cli.next]
           language == getLanguageFromPath(file.ext)
           r == scanCode(file.content, language)
       IN cli' = IF language = "null" \/ r.rejected \/ Len(r.findings) = 0
                 THEN [cli EXCEPT !.next = @ + 1]
                 ELSE [cli EXCEPT !.next = @ + 1,
                                  !.totalIssues = @ + Len(r.findings),
                                  !.fileReports = Append(@, [path |-> cli.next,
                                                             findings |-> r.findings])]
    /\ UNCHANGED <<session, call, oracle, workspace, autoSync>>

\* main after scanDirectory: the results are saved and reported, and the run exits
exit ==
    /\ cli.pc = "scanning"
    /\ cli.next > Len(cli.files)
    /\ LET results == [totalIssues |-> cli.totalIssues, fileReports |-> cli.fileReports,
                       totalFiles |-> Len(cli.files)]
       IN cli' = [cli EXCEPT
                    !.pc = "exited",
                    !.results = TRUE,
                    !.exitCode = IF cli.format = "json"
                                 THEN (IF results.totalIssues > 0 THEN 1 ELSE 0)
                                 ELSE formatConsoleReport(results)]
    /\ UNCHANGED <<session, call, oracle, workspace, autoSync>>

NextCli == main \/ scanDirectory \/ exit

InitCli ==
    /\ NoSession
    /\ call = NoCall
    /\ oracle = NoOracle
    /\ workspace = NoWorkspace
    /\ autoSync = NoSync
    /\ \E target \in {"missing", "unreadable", "file", "directory"} : \E format \in FORMATS :
       \E entries \in UNION {[1..n -> FILES] : n \in 0..MaxFiles} :
         /\ target = "file" => Len(entries) = 1
         /\ target \in {"missing", "unreadable"} => entries = <<>>
         /\ cli = [pc |-> "start", target |-> target, format |-> format, entries |-> entries,
                   files |-> <<>>, next |-> 1, totalIssues |-> 0, fileReports |-> <<>>,
                   results |-> FALSE, exitCode |-> -1]

SpecCli == InitCli /\ [][NextCli]_vars

(***************************************************************************)
(* Command-line claims.                                                    *)
(***************************************************************************)
RECURSIVE findingsIn(_)
findingsIn(fileReports) ==
    IF fileReports = <<>> THEN 0
    ELSE Len(Head(fileReports).findings) + findingsIn(Tail(fileReports))

\* C18: a run exits with code 0 if and only if totalIssues is 0, under every output
\* format, and totalIssues is the sum of the numbers of Findings over all fileReports.
C18_ExitCodeReflectsTotalIssues ==
    /\ cli.pc # "none" => cli.totalIssues = findingsIn(cli.fileReports)
    /\ (cli.pc = "exited" /\ cli.results) => (cli.exitCode = 0 <=> cli.totalIssues = 0)
    /\ cli.pc = "exited" => cli.exitCode \in {0, 1}
    /\ (cli.pc = "exited" /\ cli.exitCode = 0) => (cli.results /\ cli.totalIssues = 0)

\* C18 witness: a run in the github format over two files with three Findings between
\* them has exited with code 1
C18_FailedRunWithTwoReports ==
    /\ cli.pc = "exited"
    /\ cli.format = "github"
    /\ Len(cli.fileReports) = 2
    /\ cli.totalIssues = 3
    /\ cli.exitCode = 1


\* the preferred fix of the i-th diagnostic the batch visited is an insertion-style fix
insertionStyle(i) ==
    /\ InDatabase(batch.visited[i].diagnostic.code)
    /\ getRemediation(batch.visited[i].diagnostic.code)[1].type
         \in {"add-css-declaration", "add-comment-warning", "recommend-polyfill"}

\* an insertion-style diagnostic visited before the i-th has the i-th's insert position
positionTaken(i) ==
    \E j \in 1..(i - 1) :
      /\ insertionStyle(j)
      /\ batch.visited[j].diagnostic.range.start.line
           = batch.visited[i].diagnostic.range.start.line

\* C21: in a 'Fix all' batch at most one insertion edit is produced per insert position:
\* of several insertion-style diagnostics with one insert position only the first in
\* sort order gets its edit, the others get none, and a fix of another kind is never
\* left out because of it.
C21_OneInsertionPerPosition ==
    FixAllBuilt =>
      /\ \A i \in 1..Len(batch.visited) :
           InDatabase(batch.visited[i].diagnostic.code) =>
             batch.visited[i].edits =
               IF insertionStyle(i) /\ positionTaken(i) THEN <<>>
               ELSE createFixAction(batch.before, languageId, batch.visited[i].diagnostic)
      /\ \A i, j \in 1..Len(editsOf(batch.visited)) :
           (/\ i # j
            /\ editsOf(batch.visited)[i].kind = "insert"
            /\ editsOf(batch.visited)[j].kind = "insert")
             => editsOf(batch.visited)[i].range # editsOf(batch.visited)[j].range

\* C21 witness: a batch in which one of two insertion-style diagnostics of a line was
\* skipped, next to a fix of another kind that was composed
C21_InsertionSkipped ==
    /\ FixAllBuilt
    /\ \E i \in 1..Len(batch.visited) :
         insertionStyle(i) /\ positionTaken(i) /\ batch.visited[i].edits = <<>>
    /\ \E i \in 1..Len(batch.visited) :
         /\ InDatabase(batch.visited[i].diagnostic.code)
         /\ ~insertionStyle(i)
         /\ batch.visited[i].edits # <<>>


\* C22: the quick fix offered for a Finding that has a Remediation always carries a
\* non-empty edit: applyFix maps every fix kind that is a preferred fix of the catalog
\* to a textual operation.
C22_QuickFixCarriesEdit ==
    (applied.done /\ InDatabase(applied.finding.fixId)) => applied.edits # <<>>


\* the comment tokens of the lines a list of edits inserts
insertedComments(edits) ==
    UNION {{edits[i].newLine[j].k : j \in 1..Len(edits[i].newLine)} : i \in 1..Len(edits)}
      \cap {"comment", "linecomment", "htmlcomment"}

\* the comment token of the document's source kind: /* */, <!-- -->, //
commentKindOf(language) ==
    IF language = "css" THEN "comment"
    ELSE IF language = "html" THEN "htmlcomment"
    ELSE "linecomment"

\* C23: a comment-inserting fix, composed by the single quick fix, by the 'Fix all'
\* quick fix or by the baseline.fixAllInFile command, inserts its line in the comment
\* syntax of the document's source kind: /* */ for a style sheet, // for a script and
\* <!-- --> for markup.
C23_CommentSyntaxOfSourceKind ==
    /\ applied.done => insertedComments(applied.edits) \subseteq {commentKindOf(languageId)}
    /\ (batch.by # "none" /\ batch.built) =>
         insertedComments(editsOf(batch.visited)) \subseteq {commentKindOf(languageId)}


\* the scan of a delegated fragment fails to parse
failsToParse(d) == (IF d.kind = "css" THEN scanCss(d.content) ELSE scanJs(d.content)).rejected

\* the Findings of the delegated fragments whose scan does not fail, lines shifted by
\* the element's line, in call order
RECURSIVE survivingFindings(_)
survivingFindings(deferred) ==
    IF deferred = <<>> THEN <<>>
    ELSE LET d == Head(deferred)
             found == (IF d.kind = "css" THEN scanCss(d.content) ELSE scanJs(d.content)).findings
         IN (IF failsToParse(d) THEN <<>>
             ELSE [n \in 1..Len(found) |-> [found[n] EXCEPT !.line = @ + d.baseLine]])
            \o survivingFindings(Tail(deferred))

\* C24: a parse failure inside a delegated fragment is caught locally: scanHtml still
\* resolves, no promise is left rejected without a handler, and the result holds the
\* Findings of the surrounding markup and of the other fragments.
C24_FragmentFailureIsLocal ==
    call.pc # "none" =>
      /\ ~call.unhandled
      /\ call.pc = "awaiting" => call.settled
      /\ call.received =>
           call.got = delegated(call.text).list
                        \o survivingFindings(delegated(call.text).deferred)

\* C24 witness: the caller has received the Findings of a document in which a fragment
\* failed to parse, with a Finding of the markup around it and one of another fragment
C24_ReceivedDespiteFailure ==
    /\ call.pc # "none" /\ call.received
    /\ \E i \in 1..Len(delegated(call.text).deferred) :
         failsToParse(delegated(call.text).deferred[i])
    /\ delegated(call.text).list # <<>>
    /\ survivingFindings(delegated(call.text).deferred) # <<>>
    /\ Len(call.got) >= 2


\* the Findings of fragment d as its own scan numbers them, from line 1 of the fragment
inFragment(d) == (IF d.kind = "css" THEN scanCss(d.content) ELSE scanJs(d.content)).findings

\* C25: every Finding scanHtml takes over from an embedded fragment is reported on the
\* 1-based document line on which the flagged construct occurs: the fragment starts on
\* the element's start line L, so a construct on the fragment's line k is on document
\* line L + k - 1.
C25_EmbeddedLineIsDocumentLine ==
    (languageId = "html" /\ phase = "scanned") =>
      \A i \in 1..Len(delegated(doc).deferred) :
        LET d == delegated(doc).deferred[i]
            reported == checkFragment(d, <<>>)
        IN \A k \in 1..Len(reported) :
             reported[k].line = d.baseLine + inFragment(d)[k].line - 1


\* C26: every Finding a scanner returns has a well-formed span: the position
\* (endLine, endColumn) is not before (line, column), also for the Findings scanHtml
\* takes over from embedded fragments.
C26_SpanIsWellFormed ==
    phase = "scanned" =>
      \A n \in 1..Len(findings) :
        \/ findings[n].endLine > findings[n].line
        \/ /\ findings[n].endLine = findings[n].line
           /\ findings[n].endColumn >= findings[n].column


(***************************************************************************)
(* C27  Applying the preferred comment-inserting fix of a Finding          *)
(* (add-comment-warning or recommend-polyfill) and re-scanning the         *)
(* resulting document yields no Finding of that feature at that construct. *)
(***************************************************************************)
\* the latest scan is the re-scan that followed a comment-inserting quick fix
RescannedAfterComment ==
    /\ phase = "scanned"
    /\ applied # NoFix
    /\ applied.edits # <<>>
    /\ PreferredFixType(applied.finding.fixId) \in {"add-comment-warning", "recommend-polyfill"}

\* C27: the construct, which the inserted comment line has moved one line down, is no longer reported
C27_CommentSilencesFinding ==
    RescannedAfterComment =>
      FindingsAt(applied.finding.featureId, applied.finding.line + 1, applied.finding.column) = {}


\* the set of edits a batch composed
editSet(visited) == {editsOf(visited)[n] : n \in 1..Len(editsOf(visited))}

\* the visited diagnostics of a batch that got no edit
skippedSet(visited) == {visited[n].diagnostic : n \in {m \in 1..Len(visited) : visited[m].edits = <<>>}}

\* the command baseline.fixAllInFile has composed a batch for a style or script document
\* for which the 'Fix all' quick fix on the same diagnostics is offered
FixAllInFileBuilt ==
    /\ batch.by = "fixAllInFile"
    /\ batch.built
    /\ languageId # "html"
    /\ provideCodeActions(batch.before, languageId, batch.context).offered

\* C28: for the same style or script document and the same diagnostics,
\* baseline.fixAllInFile composes the same set of edits as the 'Fix all' quick fix:
\* the same diagnostics are skipped and there is at most one insertion per insert position.
C28_CommandEqualsFixAll ==
    FixAllInFileBuilt =>
      LET quickFix == provideCodeActions(batch.before, languageId, batch.context).visited IN
      /\ editSet(batch.visited) = editSet(quickFix)
      /\ skippedSet(batch.visited) = skippedSet(quickFix)
      /\ \A i, j \in 1..Len(editsOf(batch.visited)) :
           (/\ i # j
            /\ editsOf(batch.visited)[i].kind = "insert"
            /\ editsOf(batch.visited)[j].kind = "insert")
             => editsOf(batch.visited)[i].range # editsOf(batch.visited)[j].range


(***************************************************************************)
(* The editor's workspace (extension.ts, activate): the open documents,    *)
(* the diagnostics the extension has published for each, and the single    *)
(* debounce timer of the module.  A document's text is the number of       *)
(* changes made to it; its diagnostics name the text they were computed    *)
(* from.                                                                   *)
(***************************************************************************)
\* the changes made to one document
MaxEdits == 3

DOCUMENTS == {"A", "B"}

\* updateDiagnostics(document): scan document.getText() and publish the result for its uri
publish(ws, d) == [ws EXCEPT !.diagnostics[d] = ws.text[d]]

\* onDidChangeTextDocument: clearTimeout(debounceTimer), then a new timer for event.document
onDidChangeTextDocument(d) ==
    /\ workspace.pc = "open"
    /\ workspace.text[d] < MaxEdits
    /\ workspace' = [workspace EXCEPT !.text[d] = @ + 1, !.debounceTimer = d]
    /\ UNCHANGED <<session, call, oracle, cli, autoSync>>

\* the 500 ms have passed: the timer's callback runs updateDiagnostics(event.document)
debounceTimerFires ==
    /\ workspace.pc = "open"
    /\ workspace.debounceTimer # "none"
    /\ workspace' = [publish(workspace, workspace.debounceTimer) EXCEPT !.debounceTimer = "none"]
    /\ UNCHANGED <<session, call, oracle, cli, autoSync>>

\* onDidSaveTextDocument: the user saves a document
onDidSaveTextDocument(d) ==
    /\ workspace.pc = "open"
    /\ workspace' = publish(workspace, d)
    /\ UNCHANGED <<session, call, oracle, cli, autoSync>>

NextWorkspace ==
    \/ \E d \in DOCUMENTS : onDidChangeTextDocument(d)
    \/ debounceTimerFires
    \/ \E d \in DOCUMENTS : onDidSaveTextDocument(d)

\* both documents are open and were scanned when they were opened (onDidOpenTextDocument)
InitWorkspace ==
    /\ NoSession
    /\ call = NoCall
    /\ oracle = NoOracle
    /\ cli = NoRun
    /\ autoSync = NoSync
    /\ workspace = [pc |-> "open", text |-> [d \in DOCUMENTS |-> 0],
                    diagnostics |-> [d \in DOCUMENTS |-> 0], debounceTimer |-> "none"]

SpecWorkspace == InitWorkspace /\ [][NextWorkspace]_vars

\* a timer that is set and not cleared runs its callback; nothing obliges the user to save
LiveWorkspace == SpecWorkspace /\ WF_vars(debounceTimerFires)

\* C29: after a text change to an open document, that document's diagnostics are
\* eventually recomputed from its latest text, also when other documents change
\* within the debounce window.
C29_ChangeIsEventuallyScanned ==
    \A d \in DOCUMENTS :
      (workspace.diagnostics[d] # workspace.text[d])
        ~> (workspace.diagnostics[d] = workspace.text[d])


(***************************************************************************)
(* Auto-sync (github-auto-sync): the extension polls GitHub for the        *)
(* workflow runs of the repository and announces a newly completed run.    *)
(* The server's runs are listed newest first.  The requests in flight are  *)
(* kept as the set of lists the server answered them with: replies arrive  *)
(* in any order, and several requests may have got the same answer.  Times *)
(* are whole seconds, as in updated_at.                                    *)
(***************************************************************************)
\* the workflow runs the server ever lists
MaxRuns == 2
\* the seconds that pass
MaxTime == 1
\* the different answers awaiting delivery at one time
MaxInFlight == 2

WORKFLOW_NAMES == {"Baseline Sentinel Check", "CI"}
CONFIGURATIONS == {"disabled", "no token", "no repository", "ready"}

\* runs.find(r => r.name === 'Baseline Sentinel' || r.name === 'Baseline Sentinel Check')
RECURSIVE findBaselineRun(_, _)
findBaselineRun(runs, i) ==
    IF i > Len(runs) THEN <<>>
    ELSE IF runs[i].name \in {"Baseline Sentinel", "Baseline Sentinel Check"} THEN <<runs[i]>>
    ELSE findBaselineRun(runs, i + 1)

\* lastCheckedTime && runCompletedAt <= lastCheckedTime, with a strict comparison
alreadyNotifiedStrictly(lastCheckedTime, runCompletedAt) ==
    IF lastCheckedTime = <<>> THEN FALSE ELSE runCompletedAt < lastCheckedTime[1]

\* lastCheckedTime && runCompletedAt <= lastCheckedTime
alreadyNotified(lastCheckedTime, runCompletedAt) ==
    IF lastCheckedTime = <<>> THEN FALSE ELSE runCompletedAt <= lastCheckedTime[1]

\* checkForNewResults up to its await: the request is sent, the server's list is its answer
checkForNewResults(sync) == [sync EXCEPT !.inFlight = @ \cup {sync.runs}]

\* startGitHubAutoSync: nothing unless enabled, with a token, in a GitHub repository;
\* otherwise the interval is (re)set and the first check is made at once
startGitHubAutoSync(configuration) ==
    /\ autoSync.pc = "on"
    /\ Cardinality(autoSync.inFlight \cup {autoSync.runs}) <= MaxInFlight
    /\ autoSync' = IF configuration # "ready" THEN autoSync
                   ELSE checkForNewResults([autoSync EXCEPT !.syncInterval = TRUE])
    /\ UNCHANGED <<session, call, oracle, cli, workspace>>

\* stopGitHubAutoSync: clearInterval
stopGitHubAutoSync ==
    /\ autoSync.pc = "on"
    /\ autoSync.syncInterval
    /\ autoSync' = [autoSync EXCEPT !.syncInterval = FALSE]
    /\ UNCHANGED <<session, call, oracle, cli, workspace>>

\* the interval's callback: one more checkForNewResults, whatever the earlier ones are doing
syncIntervalFires ==
    /\ autoSync.pc = "on"
    /\ autoSync.syncInterval
    /\ Cardinality(autoSync.inFlight \cup {autoSync.runs}) <= MaxInFlight
    /\ autoSync' = checkForNewResults(autoSync)
    /\ UNCHANGED <<session, call, oracle, cli, workspace>>

\* a reply with the list 'runs' arrives (the last of the requests with this answer, or
\* not) and checkForNewResults continues after its await: a failed request is caught
\* and logged; a new completed run sets lastCheckedTime and opens the modal notification
fetchLatestWorkflowRunsSettles(runs, failed, last) ==
    /\ autoSync.pc = "on"
    /\ runs \in autoSync.inFlight
    /\ LET baselineRun == findBaselineRun(runs, 1)
           rest == [autoSync EXCEPT !.inFlight = IF last THEN @ \ {runs} ELSE @]
       IN autoSync' =
            IF failed \/ runs = <<>> \/ baselineRun = <<>> THEN rest
            ELSE IF baselineRun[1].status # "completed" THEN rest
            ELSE IF alreadyNotified(autoSync.lastCheckedTime, baselineRun[1].updated_at)
                 THEN [rest EXCEPT !.skipped = TRUE]
            ELSE [rest EXCEPT !.lastCheckedTime = <<baselineRun[1].updated_at>>,
                              !.shown = Append(@, baselineRun[1]),
                              !.dialogs = @ + 1]
    /\ UNCHANGED <<session, call, oracle, cli, workspace>>

\* the user answers a notification
showResultsNotificationReturns ==
    /\ autoSync.pc = "on"
    /\ autoSync.dialogs > 0
    /\ autoSync' = [autoSync EXCEPT !.dialogs = @ - 1]
    /\ UNCHANGED <<session, call, oracle, cli, workspace>>

\* GitHub: a workflow run is created
workflowRunStarts(name) ==
    /\ autoSync.pc = "on"
    /\ Len(autoSync.runs) < MaxRuns
    /\ autoSync' = [autoSync EXCEPT !.runs =
                      <<[id |-> Len(autoSync.runs) + 1, name |-> name, status |-> "in_progress",
                         updated_at |-> autoSync.now]>> \o @]
    /\ UNCHANGED <<session, call, oracle, cli, workspace>>

\* GitHub: a run completes
workflowRunCompletes(i) ==
    /\ autoSync.pc = "on"
    /\ i \in 1..Len(autoSync.runs)
    /\ autoSync.runs[i].status = "in_progress"
    /\ autoSync' = [autoSync EXCEPT !.runs[i].status = "completed",
                                    !.runs[i].updated_at = autoSync.now]
    /\ UNCHANGED <<session, call, oracle, cli, workspace>>

\* a second passes
tick ==
    /\ autoSync.pc = "on"
    /\ autoSync.now < MaxTime
    /\ autoSync' = [autoSync EXCEPT !.now = @ + 1]
    /\ UNCHANGED <<session, call, oracle, cli, workspace>>

NextSync ==
    \/ \E configuration \in CONFIGURATIONS : startGitHubAutoSync(configuration)
    \/ stopGitHubAutoSync
    \/ syncIntervalFires
    \/ \E runs \in autoSync.inFlight : \E failed, last \in BOOLEAN :
         fetchLatestWorkflowRunsSettles(runs, failed, last)
    \/ showResultsNotificationReturns
    \/ \E name \in WORKFLOW_NAMES : workflowRunStarts(name)
    \/ \E i \in 1..MaxRuns : workflowRunCompletes(i)
    \/ tick

\* the module is loaded: syncInterval = null, lastCheckedTime = null
\* (shown: the runs announced so far; skipped: a reply has been passed over as
\* 'Already notified about this run')
InitSync ==
    /\ NoSession
    /\ call = NoCall
    /\ oracle = NoOracle
    /\ cli = NoRun
    /\ workspace = NoWorkspace
    /\ autoSync = [pc |-> "on", now |-> 0, runs |-> <<>>, syncInterval |-> FALSE,
                   lastCheckedTime |-> <<>>, inFlight |-> {}, shown |-> <<>>, dialogs |-> 0,
                   skipped |-> FALSE]

SpecSync == InitSync /\ [][NextSync]_vars

\* C30: over every sequence of polls the notification is shown at most once per
\* completed workflow run, and only for a run that was completed when it was listed.
C30_NotifiedOncePerRun ==
    autoSync.pc = "on" =>
      /\ \A m, n \in 1..Len(autoSync.shown) :
           autoSync.shown[m].id = autoSync.shown[n].id => m = n
      /\ \A n \in 1..Len(autoSync.shown) :
           /\ autoSync.shown[n].status = "completed"
           /\ \E i \in 1..Len(autoSync.runs) : autoSync.runs[i] = autoSync.shown[n]

\* C30 witness: a run was announced and, while its dialog is still open and the polling
\* goes on, a later reply that lists the same run was recognised as already announced
C30_PolledWhileDialogOpen ==
    /\ autoSync.pc = "on"
    /\ Len(autoSync.shown) = 1
    /\ autoSync.dialogs = 1
    /\ autoSync.syncInterval
    /\ autoSync.skipped
    /\ autoSync.lastCheckedTime = <<autoSync.shown[1].updated_at>>
====
